---- MODULE Spec2Model ----
(***************************************************************************)
(* A model of the three canvas web components of the repository:          *)
(*   DataMeshGraph      src/scripts/data-mesh.js                          *)
(*   DotGridBackground  src/scripts/dot-grid-background.js                *)
(*   PyramidBuilder     src/unnamed/part_000                              *)
(* One element instance is modelled; the variable cls says of which class *)
(* it is.  Numbers are fixed-point integers: lengths are pixels, angles   *)
(* are degrees (PI = 180), and a value of the unit interval is scaled by  *)
(* One.  A vector of NaN components is the empty tuple.                    *)
(***************************************************************************)
EXTENDS Integers, Sequences, FiniteSets, TLC

---------------------------------------------------------------------------
(* Bounds of the model                                                     *)

\* renders (frames drawn) per behaviour
MaxRenders == 3
\* clock ticks per behaviour
MaxTicks == 2

\* the frames followed for a PyramidBuilder
MaxPyramidRenders == 5

---------------------------------------------------------------------------
(* Arithmetic of JavaScript numbers on the fixed-point grid                *)

\* Math.PI, in the angle unit of the model (degrees)
PI == 180

\* quotient rounded toward zero
Div(a, b) ==
    IF (a >= 0) = (b > 0) THEN (IF a >= 0 THEN a ELSE -a) \div (IF b >= 0 THEN b ELSE -b)
    ELSE -((IF a >= 0 THEN a ELSE -a) \div (IF b >= 0 THEN b ELSE -b))

Abs(a) == IF a >= 0 THEN a ELSE -a

Min(a, b) == IF a <= b THEN a ELSE b

Max(a, b) == IF a >= b THEN a ELSE b

\* cos of 0..90 degrees, scaled by 1000
CosTable ==
    << 1000, 1000, 999, 999, 998, 996, 995, 993, 990, 988, 985, 982, 978, 974,
       970, 966, 961, 956, 951, 946, 940, 934, 927, 921, 914, 906, 899, 891,
       883, 875, 866, 857, 848, 839, 829, 819, 809, 799, 788, 777, 766, 755,
       743, 731, 719, 707, 695, 682, 669, 656, 643, 629, 616, 602, 588, 574,
       559, 545, 530, 515, 500, 485, 469, 454, 438, 423, 407, 391, 375, 358,
       342, 326, 309, 292, 276, 259, 242, 225, 208, 191, 174, 156, 139, 122,
       105, 87, 70, 52, 35, 17, 0 >>

\* the fixed-point representation of 1.0
One == CosTable[1]

\* Math.cos
Cos(a) ==
    LET r == a % (2 * PI)
        h == IF r > PI THEN 2 * PI - r ELSE r
    IN  IF 2 * h <= PI THEN CosTable[h + 1] ELSE -CosTable[PI - h + 1]

\* Math.sin
Sin(a) == Cos(a - PI \div 2)

\* Math.acos on [-1, 1]: the least grid angle whose cosine is at most c
RECURSIVE ACosSearch(_, _, _)
ACosSearch(c, lo, hi) ==
    IF lo >= hi THEN lo
    ELSE LET mid == (lo + hi) \div 2
         IN  IF Cos(mid) <= c THEN ACosSearch(c, lo, mid)
             ELSE ACosSearch(c, mid + 1, hi)

ACos(c) == IF c >= 0 THEN ACosSearch(c, 0, PI) ELSE PI - ACosSearch(-c, 0, PI)

\* the numbers NaN and Infinity where a field may hold them; no coordinate,
\* strength or factor of the model is as low or as high
NaN == 0 - 2000000000

Infinity == 0 - (NaN + 1)

\* v * f for f = Infinity
TimesInfinity(v) == IF v > 0 THEN Infinity ELSE IF v < 0 THEN 0 - Infinity ELSE NaN

\* Math.sqrt on the naturals: the integer part of the root
RECURSIVE SqrtSearch(_, _, _)
SqrtSearch(n, lo, hi) ==
    IF lo >= hi THEN lo
    ELSE LET mid == (lo + hi + 1) \div 2
         IN  IF mid * mid <= n THEN SqrtSearch(n, mid, hi)
             ELSE SqrtSearch(n, lo, mid - 1)

Sqrt(n) == SqrtSearch(n, 0, 46340)

---------------------------------------------------------------------------
(* Configuration of DataMeshGraph (constructor defaults)                   *)

\* nodeCount and connectionsPerNode may be fractional: they are held in
\* units of 1/Den, and Math.floor is the quotient by Den
Den == 2

Floor(v) == v \div Den

\* this.depth
Depth == 800

\* this.rotationSpeedX and this.rotationSpeedY, 0.0025 and 0.0015 radians,
\* in thousandths of a degree
RotationSpeedX == 143

RotationSpeedY == 86

\* this.edgeUpdateIntervalMs
EdgeUpdateIntervalMs == 800

\* this.driftSpeedBase, 0.14, in hundredths
DriftSpeedBase == 14

\* the largest |driftTheta| and |driftPhi| that generateGraph draws (0.003
\* and 0.002 radians in the source, ratio 3 : 2), enlarged so that a
\* reflection of phi happens within a few frames
DriftThetaMax == 300

DriftPhiMax == 200

\* Math.PI * (3 - Math.sqrt(5)), 137.5 degrees
GoldenAngle == 138

\* the drag gain of onPointerMove, 0.0009 radians per pixel, in thousandths
\* of a degree
DragGain == 52

\* the damping of render, 0.96, in hundredths
Damping == 96

---------------------------------------------------------------------------
(* DataMeshGraph: geometry                                                 *)

\* one element of this.nodes, built by generateGraph for index i (from 0)
\* of N on a sphere of the given radius; rt and rp in {-1, 0, 1} stand for
\* the two Math.random() draws (low, middle, high)
NewNode(i, N, radius, rt, rp) ==
    LET cosPhi == One - Div(2 * (2 * i + 1) * One, 2 * N)
        phi    == ACos(cosPhi)
        theta  == i * GoldenAngle
        sinPhi == Sin(phi)
    IN  [ x |-> Div(Div(Cos(theta) * sinPhi, One) * radius, One),
          y |-> Div(cosPhi * radius, One),
          z |-> Div(Div(Sin(theta) * sinPhi, One) * radius, One),
          phi |-> phi, theta |-> theta,
          driftTheta |-> rt * DriftThetaMax, driftPhi |-> rp * DriftPhiMax,
          radius |-> radius ]

\* Math.min(rect.width, rect.height) * 0.4
GraphRadius(rect) == Div(Min(rect.width, rect.height) * 4, 10)

\* the point count taken without the clamp
PointCountUnclamped(nodeCount) == Floor(nodeCount)

\* Math.max(8, Math.floor(this.nodeCount))
PointCount(nodeCount) == Max(8, Floor(nodeCount))

\* the node array generateGraph builds; rnd[i] = <<rt, rp>> are the random
\* draws for the node of index i - 1
generateGraph(rect, nodeCount, rnd) ==
    LET N == PointCount(nodeCount)
    IN  [ i \in 1..N |-> NewNode(i - 1, N, GraphRadius(rect), rnd[i][1], rnd[i][2]) ]

\* n.driftPhi * this.driftSpeedBase * (1 + (i % 5) * 0.1) for index i (from 0)
PhiStep(n, i, driftSpeedBase) ==
    Div(n.driftPhi * driftSpeedBase * (10 + (i % 5)), 1000)

\* n.driftTheta * this.driftSpeedBase * (1 + i % 3)
ThetaStep(n, i, driftSpeedBase) ==
    Div(n.driftTheta * driftSpeedBase * (1 + (i % 3)), 100)

\* the Cartesian position render recomputes from the angles
Position(n, theta, phi) ==
    [ n EXCEPT !.x = Div(Div(Cos(theta) * Sin(phi), One) * n.radius, One),
               !.y = Div(Cos(phi) * n.radius, One),
               !.z = Div(Div(Sin(theta) * Sin(phi), One) * n.radius, One) ]

\* the drift loop without the two reflection tests
DriftNodeNoReflect(n, i, driftSpeedBase) ==
    LET theta1 == n.theta + ThetaStep(n, i, driftSpeedBase)
        phi1   == n.phi + PhiStep(n, i, driftSpeedBase)
    IN  Position([ n EXCEPT !.theta = theta1, !.phi = phi1 ], theta1, phi1)

\* one pass of the per-node drift loop of render over node n of index i
\* (from 0)
DriftNode(n, i, driftSpeedBase) ==
    LET theta1 == n.theta + ThetaStep(n, i, driftSpeedBase)
        phi1   == n.phi + PhiStep(n, i, driftSpeedBase)
        low    == phi1 < 0
        phi2   == IF low THEN -phi1 ELSE phi1
        dp2    == IF low THEN -n.driftPhi ELSE n.driftPhi
        high   == phi2 > PI
        phi3   == IF high THEN PI - (phi2 - PI) ELSE phi2
        dp3    == IF high THEN -dp2 ELSE dp2
    IN  Position([ n EXCEPT !.theta = theta1, !.phi = phi3, !.driftPhi = dp3 ],
                 theta1, phi3)

DriftNodes(ns, driftSpeedBase) ==
    [ i \in DOMAIN ns |-> DriftNode(ns[i], i - 1, driftSpeedBase) ]

\* n.x * invR, n.y * invR, n.z * invR with invR = 1 / n.radius; when the
\* radius is 0 every component is 0 * Infinity = NaN
NaNVector == << >>

UnitVector(n) ==
    IF n.radius = 0 THEN NaNVector
    ELSE << Div(n.x * One, n.radius), Div(n.y * One, n.radius), Div(n.z * One, n.radius) >>

\* Math.acos(Math.max(-1, Math.min(1, dot))) of two unit vectors
AngleBetween(u, v) ==
    ACos(Max(-One, Min(One, Div(u[1] * v[1] + u[2] * v[2] + u[3] * v[3], One))))

\* the candidate test without the comparison with maxAngle
WithinAny(u, v, maxAngle) == u # NaNVector /\ v # NaNVector

\* angle <= maxAngle for the angle between u and v, false when it is NaN
Within(u, v, maxAngle) ==
    u # NaNVector /\ v # NaNVector /\ AngleBetween(u, v) <= maxAngle

\* the first limit candidates in the order they were pushed, without the sort
RECURSIVE TakeFirst(_, _)
TakeFirst(cands, limit) ==
    IF limit = 0 \/ cands = {} THEN << >>
    ELSE LET c == CHOOSE c \in cands : \A d \in cands : c[2] <= d[2]
         IN  << c[2] >> \o TakeFirst(cands \ {c}, limit - 1)

\* candidates.sort((a, b) => a.angle - b.angle) followed by taking the first
\* limit entries: cands is a set of <<angle, j>>; the sort is stable and the
\* candidates were pushed in ascending j
RECURSIVE TakeClosest(_, _)
TakeClosest(cands, limit) ==
    IF limit = 0 \/ cands = {} THEN << >>
    ELSE LET c == CHOOSE c \in cands :
                    \A d \in cands : c[1] < d[1] \/ (c[1] = d[1] /\ c[2] <= d[2])
         IN  << c[2] >> \o TakeClosest(cands \ {c}, limit - 1)

\* Math.max(1, Math.floor(this.connectionsPerNode))
NeighborCount(connectionsPerNode) == Max(1, Floor(connectionsPerNode))

\* the candidates of point i: <<angle, j>> for the other points j within
\* maxAngle of it
Candidates(ns, i, maxAngle) ==
    { << AngleBetween(UnitVector(ns[i]), UnitVector(ns[j])), j >> :
        j \in { j \in DOMAIN ns :
                  j # i /\ Within(UnitVector(ns[i]), UnitVector(ns[j]), maxAngle) } }

\* edges.push({ a, b }) without the test of edgeSet
AddEdgeNoDedup(es, a, b) == Append(es, [a |-> a, b |-> b])

\* if (!edgeSet.has(key)) { edgeSet.add(key); edges.push({ a, b }); }
AddEdge(es, a, b) ==
    IF \E n \in DOMAIN es : es[n] = [a |-> a, b |-> b] THEN es
    ELSE Append(es, [a |-> a, b |-> b])

\* the pairs pushed as found, without the ordering of a and b
RECURSIVE AddEdgesAsFound(_, _, _)
AddEdgesAsFound(es, i, js) ==
    IF js = << >> THEN es
    ELSE AddEdgesAsFound(AddEdge(es, i, Head(js)), i, Tail(js))

RECURSIVE AddEdges(_, _, _)
AddEdges(es, i, js) ==
    IF js = << >> THEN es
    ELSE LET j == Head(js)
         IN  AddEdges(AddEdge(es, IF i < j THEN i ELSE j, IF i < j THEN j ELSE i),
                      i, Tail(js))

\* the outer loop of computeEdgesIfDue from point i on
RECURSIVE EdgesFrom(_, _, _, _, _)
EdgesFrom(ns, i, k, maxAngle, es) ==
    IF i > Len(ns) THEN es
    ELSE LET cands == Candidates(ns, i, maxAngle)
             limit == Min(k, Cardinality(cands))
         IN  EdgesFrom(ns, i + 1, k, maxAngle,
                       AddEdges(es, i, TakeClosest(cands, limit)))

\* the edge list computeEdgesIfDue builds (point indices from 1)
computeEdges(ns, connectionsPerNode, maxAngle) ==
    EdgesFrom(ns, 1, NeighborCount(connectionsPerNode), maxAngle, << >>)

---------------------------------------------------------------------------
(* DataMeshGraph: projection and the interactive node                      *)

\* the rotation angles are held in thousandths of a degree
Deg(a) == Div(a, 1000)

\* a projection that shears where project rotates about Y
projectSheared(point, ax, ay, depth, cx, cy) ==
    LET cosX == Cos(Deg(ax))   sinX == Sin(Deg(ax))
        y  == Div(point.y * cosX - point.z * sinX, One)
        z1 == Div(point.y * sinX + point.z * cosX, One)
        x  == point.x + z1
        z  == z1 - point.x
        f  == Div(depth * One, depth + z)
    IN  IF depth + z = 0
        THEN [ x |-> TimesInfinity(x), y |-> TimesInfinity(y),
               scale |-> TimesInfinity(depth), z |-> z ]
        ELSE [ x |-> cx + Div(x * f, One), y |-> cy + Div(y * f, One), scale |-> f, z |-> z ]

\* project(point, ax, ay)
project(point, ax, ay, depth, cx, cy) ==
    LET cosX == Cos(Deg(ax))   sinX == Sin(Deg(ax))
        cosY == Cos(Deg(ay))   sinY == Sin(Deg(ay))
        y  == Div(point.y * cosX - point.z * sinX, One)
        z1 == Div(point.y * sinX + point.z * cosX, One)
        x  == Div(point.x * cosY + z1 * sinY, One)
        z  == Div(z1 * cosY - point.x * sinY, One)
        f  == Div(depth * One, depth + z)
    IN  IF depth + z = 0
        THEN [ x |-> TimesInfinity(x), y |-> TimesInfinity(y),
               scale |-> TimesInfinity(depth), z |-> z ]
        ELSE [ x |-> cx + Div(x * f, One), y |-> cy + Div(y * f, One), scale |-> f, z |-> z ]

\* inverseRotate(x, y, z, ax, ay)
inverseRotate(x, y, z, ax, ay) ==
    LET cosY == Cos(-Deg(ay))   sinY == Sin(-Deg(ay))
        xi   == Div(x * cosY + z * sinY, One)
        zi   == Div(z * cosY - x * sinY, One)
        cosX == Cos(-Deg(ax))   sinX == Sin(-Deg(ax))
    IN  [ x |-> xi, y |-> Div(y * cosX - zi * sinX, One),
          z |-> Div(y * sinX + zi * cosX, One) ]

\* mouseToSphereObjectSpace(): the empty sequence stands for null, a
\* one-element sequence holds the point.  With graphRadius = 0 the quotients
\* dx, dy are infinite or NaN and the result is null.
mouseToSphereObjectSpace(mx, my, cx, cy, radius, ax, ay) ==
    IF radius = 0 THEN << >>
    ELSE LET dx  == Div((mx - cx) * One, radius)
             dy  == Div((my - cy) * One, radius)
             r2  == dx * dx + dy * dy
             out == r2 > One * One
             ux  == IF out THEN Div(dx * One, Sqrt(r2)) ELSE dx
             uy  == IF out THEN Div(dy * One, Sqrt(r2)) ELSE dy
             uz  == -Sqrt(Max(0, One * One - (ux * ux + uy * uy)))
             v   == inverseRotate(ux, uy, uz, ax, ay)
         IN  << [ x |-> Div(v.x * radius, One), y |-> Div(v.y * radius, One),
                  z |-> Div(v.z * radius, One), radius |-> radius ] >>

\* the candidates of the interactive node: <<angle, i>> for the points i
\* within maxAngle of it
UserCandidates(ns, user, maxAngle) ==
    { << AngleBetween(UnitVector(user), UnitVector(ns[i])), i >> :
        i \in { i \in DOMAIN ns :
                  Within(UnitVector(user), UnitVector(ns[i]), maxAngle) } }

\* the b of each entry of the local userEdges of render
UserEdges(ns, user, connectionsPerNode, maxAngle) ==
    LET cands == UserCandidates(ns, user, maxAngle)
    IN  TakeClosest(cands, Min(NeighborCount(connectionsPerNode), Cardinality(cands)))

\* this.edges.map(e => ({ e, z: (projected[e.a].z + projected[e.b].z) * 0.5 })):
\* the entry of edge e, with the sums of its endpoints' depths and scales
\* (twice the averages)
DepthEntry(e, projected) ==
    [ a |-> e.a, b |-> e.b,
      z |-> projected[e.a].z + projected[e.b].z,
      scale |-> projected[e.a].scale + projected[e.b].scale ]

\* .sort((a, b) => a.z - b.z): entries is a set of <<position, entry>>; the
\* sort is stable
RECURSIVE SortByDepth(_)
SortByDepth(entries) ==
    IF entries = {} THEN << >>
    ELSE LET c == CHOOSE c \in entries :
                    \A d \in entries :
                       c[2].z < d[2].z \/ (c[2].z = d[2].z /\ c[1] <= d[1])
         IN  << c[2] >> \o SortByDepth(entries \ {c})

\* the edges in the order render strokes them
DrawOrder(es, projected) ==
    SortByDepth({ << n, DepthEntry(es[n], projected) >> : n \in DOMAIN es })

---------------------------------------------------------------------------
(* PyramidBuilder: the structure of dots                                   *)

\* the constructor's configuration; positions on the canvas (x, y, targetX,
\* targetY) and the pull of the mouse on them are not followed
PyramidDefaults ==
    [ pyramidHeight |-> 300, pyramidWidth |-> 400, dotSpacing |-> 20,
      buildInterval |-> 1000, dropDistance |-> 100, dropDuration |-> 800 ]

\* Math.sqrt(3) / 2, in thousandths
HexRatio == 866

\* numLayers: Math.min(maxRowsByHeight, maxDotsInBottomRow), the two being
\* Math.floor(Math.min(pyramidHeight, rect.height * 0.8) / verticalSpacing)
\* and Math.floor(Math.min(pyramidWidth, rect.width * 0.8) / dotSpacing)
NumLayers(r, p) ==
    LET maxRowsByHeight ==
            Min(Div(p.pyramidHeight * 1000, p.dotSpacing * HexRatio),
                Div(r.height * 800, p.dotSpacing * HexRatio))
        maxDotsInBottomRow ==
            Min(Div(p.pyramidWidth, p.dotSpacing), Div(r.width * 8, p.dotSpacing * 10))
    IN  Min(maxRowsByHeight, maxDotsInBottomRow)

\* the dot pushed for axial coordinates (q, r) when totalDots dots precede
\* its layer
NewDot(q, r, totalDots) ==
    [ opacity |-> 0, targetOpacity |-> 0, isBuilt |-> FALSE, dropStartTime |-> 0,
      isDropping |-> FALSE, layerIndex |-> r, dotIndex |-> q,
      globalIndex |-> totalDots + q ]

\* the loop over r of createPyramidStructure, from row r on: the layers
\* pushed and the final totalDots
RECURSIVE BuildLayers(_, _, _, _)
BuildLayers(r, numLayers, totalDots, layers) ==
    IF r >= numLayers THEN [ pyramidLayers |-> layers, totalDots |-> totalDots ]
    ELSE LET layerDots == [ q \in 1..(numLayers - r) |-> NewDot(q - 1, r, totalDots) ]
         IN  BuildLayers(r + 1, numLayers, totalDots + Len(layerDots),
                         Append(layers, layerDots))

\* a pre-built share of everything
PreBuiltAll(totalDots) == totalDots

\* Math.floor(this.totalDots * preBuiltPercentage)
PreBuilt(totalDots) == Div(totalDots * 9, 10)

\* the pass that pre-builds the dots below nextDotIndex
PreBuild(layers, nextDotIndex) ==
    [ l \in DOMAIN layers |->
        [ d \in DOMAIN layers[l] |->
            IF layers[l][d].globalIndex < nextDotIndex
            THEN [ layers[l][d] EXCEPT !.isBuilt = TRUE, !.opacity = One ]
            ELSE [ layers[l][d] EXCEPT !.isBuilt = FALSE, !.opacity = 0 ] ] ]

\* createPyramidStructure(): the fields it writes
createPyramidStructure(r, p) ==
    LET built == BuildLayers(0, NumLayers(r, p), 0, << >>)
        next  == PreBuilt(built.totalDots)
    IN  [ pyramidLayers |-> PreBuild(built.pyramidLayers, next),
          totalDots |-> built.totalDots,
          nextDotIndex |-> next, builtDots |-> next,
          isBuilding |-> FALSE, isComplete |-> FALSE ]

\* the fields of a PyramidBuilder right after the constructor's field
\* initializers, before init()
PyramidFields ==
    [ pyramidLayers |-> << >>, totalDots |-> 0, builtDots |-> 0, nextDotIndex |-> 0,
      isBuilding |-> FALSE, isComplete |-> FALSE, buildTimer |-> 0,
      fadeInProgress |-> 0, fadeInStartTime |-> 0, isFadingIn |-> TRUE ]

\* Object.assign-like update of the fields py by the record fields
Store(py, fields) ==
    [ key \in DOMAIN py |-> IF key \in DOMAIN fields THEN fields[key] ELSE py[key] ]

\* the timeouts of the environment: next is the handle the next setTimeout
\* returns, pending holds [id, due] for each timeout set and neither run nor
\* cleared
NoTimers == [ next |-> 1, pending |-> {} ]

\* a search loop that starts the drop of the dot after the next one
StartDropSkipping(layers, nextDotIndex, t) ==
    [ l \in DOMAIN layers |->
        [ d \in DOMAIN layers[l] |->
            IF layers[l][d].globalIndex = nextDotIndex + 1
            THEN [ layers[l][d] EXCEPT !.isDropping = TRUE, !.dropStartTime = t,
                                       !.opacity = 0, !.targetOpacity = One ]
            ELSE layers[l][d] ] ]

\* the search loop of addNextDot: the dot whose globalIndex is nextDotIndex
\* starts its drop at time t
StartDrop(layers, nextDotIndex, t) ==
    [ l \in DOMAIN layers |->
        [ d \in DOMAIN layers[l] |->
            IF layers[l][d].globalIndex = nextDotIndex
            THEN [ layers[l][d] EXCEPT !.isDropping = TRUE, !.dropStartTime = t,
                                       !.opacity = 0, !.targetOpacity = One ]
            ELSE layers[l][d] ] ]

\* addNextDot() without its test of nextDotIndex against totalDots
addNextDotUnguarded(py, tm, t, p) ==
    LET py1 == [ py EXCEPT !.pyramidLayers = StartDrop(@, py.nextDotIndex, t),
                           !.nextDotIndex = @ + 1,
                           !.builtDots = @ + 1 ]
    IN  IF py.isBuilding
        THEN [ py |-> [ py1 EXCEPT !.buildTimer = tm.next ],
               tm |-> [ next |-> tm.next + 1,
                        pending |-> tm.pending \cup
                            { [ id |-> tm.next, due |-> t + p.buildInterval ] } ] ]
        ELSE [ py |-> py1, tm |-> tm ]

\* addNextDot() at time t with configuration p: the fields py and the
\* timeouts tm afterwards
addNextDot(py, tm, t, p) ==
    IF py.nextDotIndex >= py.totalDots
    THEN [ py |-> [ py EXCEPT !.isComplete = TRUE, !.isBuilding = FALSE ], tm |-> tm ]
    ELSE LET py1 == [ py EXCEPT !.pyramidLayers = StartDrop(@, py.nextDotIndex, t),
                                !.nextDotIndex = @ + 1,
                                !.builtDots = @ + 1 ]
         IN  IF py.isBuilding
             THEN [ py |-> [ py1 EXCEPT !.buildTimer = tm.next ],
                    tm |-> [ next |-> tm.next + 1,
                             pending |-> tm.pending \cup
                                 { [ id |-> tm.next, due |-> t + p.buildInterval ] } ] ]
             ELSE [ py |-> py1, tm |-> tm ]

\* startBuilding()
startBuilding(py, tm, t, p) ==
    IF ~ py.isBuilding /\ ~ py.isComplete
    THEN addNextDot([ py EXCEPT !.isBuilding = TRUE ], tm, t, p)
    ELSE [ py |-> py, tm |-> tm ]

\* 1 - Math.pow(1 - progress, 3)
EaseOut(progress) ==
    One - Div((One - progress) * (One - progress) * (One - progress), One * One)

\* updateDotAnimations() for one dot at time t
UpdateDot(dot, t, p) ==
    IF dot.isDropping
    THEN LET progress == Min(One, Div((t - dot.dropStartTime) * One, p.dropDuration))
         IN  IF progress >= One
             THEN [ dot EXCEPT !.isDropping = FALSE, !.isBuilt = TRUE, !.opacity = One ]
             ELSE [ dot EXCEPT !.opacity = EaseOut(progress) ]
    ELSE dot

updateDotAnimations(layers, t, p) ==
    [ l \in DOMAIN layers |-> [ d \in DOMAIN layers[l] |-> UpdateDot(layers[l][d], t, p) ] ]

\* this.fadeInProgress = Math.min(1, elapsed / 1000)
FadeIn(py, t) == Min(One, Div((t - py.fadeInStartTime) * One, 1000))

\* render() of PyramidBuilder at time t
renderPyramid(py, tm, t, p) ==
    LET faded == IF py.isFadingIn
                 THEN IF FadeIn(py, t) >= One
                      THEN startBuilding([ py EXCEPT !.fadeInProgress = FadeIn(py, t),
                                                     !.isFadingIn = FALSE ], tm, t, p)
                      ELSE [ py |-> [ py EXCEPT !.fadeInProgress = FadeIn(py, t) ],
                             tm |-> tm ]
                 ELSE [ py |-> py, tm |-> tm ]
    IN  [ py |-> [ faded.py EXCEPT !.pyramidLayers = updateDotAnimations(@, t, p) ],
          tm |-> faded.tm ]

\* a stopAnimation() that forgets the handle without clearTimeout
clearBuildTimerForgetting(py, tm) ==
    IF py.buildTimer # 0
    THEN [ py |-> [ py EXCEPT !.buildTimer = 0 ], tm |-> tm ]
    ELSE [ py |-> py, tm |-> tm ]

\* the part of stopAnimation() of PyramidBuilder that clears the build timer
clearBuildTimer(py, tm) ==
    IF py.buildTimer # 0
    THEN [ py |-> [ py EXCEPT !.buildTimer = 0 ],
           tm |-> [ tm EXCEPT !.pending = { x \in @ : x.id # py.buildTimer } ] ]
    ELSE [ py |-> py, tm |-> tm ]

---------------------------------------------------------------------------
(* DotGridBackground: the gravity trails                                   *)

\* this.trailLength as the page configures it (15 in the constructor)
TrailLength == 3

\* this.trailDecay as the page configures it, in thousandths (0.85 in the
\* constructor)
TrailDecay == 400

\* this.dotSpacing as the page configures it (20 in the constructor)
DotSpacing == 50

\* this.eventFrequency as the page configures it, in thousandths (0.200 in
\* the constructor)
EventFrequency == 2000

\* this.eventDuration
EventDuration == 1200

\* this.eventRadius and this.gravityRadius
EventRadius == 140

GravityRadius == 140

\* this.gravityStrength
GravityStrength == 2

\* this.animationSpeed, in thousandths
AnimationSpeed == 200

\* this.waveAmplitude
WaveAmplitude == 10

\* this.waveFrequency, 0.005 radians per pixel, in thousandths of a degree
WaveFrequency == 286

\* this.waveSpeed * 0.016 radians, in thousandths of a degree
WaveStep == 917

\* this.shockwaveStrength, this.bounceStrength, this.bounceHeight
ShockwaveStrength == 25

BounceStrength == 4

BounceHeight == 50

\* this.rippleCount, this.rippleBounceStrength, this.rippleOutwardStrength
RippleCount == 3

RippleBounceStrength == 2

RippleOutwardStrength == 20

\* this.fadeInDuration
FadeInDuration == 2000

\* Date.now() when the page was loaded: the clock of the model counts from
\* there, so the 0 that the constructor stores in lastEventTime is -Epoch
Epoch == 1000000

\* the configuration of a DotGridBackground
GridDefaults ==
    [ trailLength |-> TrailLength, trailDecay |-> TrailDecay,
      dotSpacing |-> DotSpacing, eventFrequency |-> EventFrequency,
      eventDuration |-> EventDuration, eventsEnabled |-> TRUE, waveEnabled |-> TRUE ]

\* this.maxTrails = this.trailLength || 5
MaxTrails(p) == IF p.trailLength = 0 THEN 5 ELSE p.trailLength

\* Math.ceil of a quotient of naturals
Ceil(a, b) == (a + b - 1) \div b

\* the value undefined of a field that otherwise holds a number n as << n >>
Undefined == << >>

\* the Math.random() draws of createGrid: the offset of dot k under seed,
\* in pixels
GridSeeds == { 1 }

RandomOffset(seed, k) == IF (k + seed) % 2 = 0 THEN 0 ELSE -1

\* createGrid(): the dots, row by row; baseX and baseY are pixels, the
\* other coordinates are thousandths of a pixel
createGrid(r, p, seed) ==
    LET cols == Ceil(r.width, p.dotSpacing) + 2
        rows == Ceil(r.height, p.dotSpacing) + 2
    IN  [ k \in 1..(rows * cols) |->
            LET col == (k - 1) % cols
                row == (k - 1) \div cols
                bx  == col * p.dotSpacing + RandomOffset(seed, k)
                by  == row * p.dotSpacing + RandomOffset(seed, k)
            IN  [ x |-> bx * One, y |-> by * One, baseX |-> bx, baseY |-> by, z |-> 0,
                  targetX |-> bx * One, targetY |-> by * One, targetZ |-> 0,
                  eventPulse |-> 0, eventColor |-> "null",
                  eventDelay |-> Undefined, eventMaxStrength |-> Undefined ] ]

\* the fields of a DotGridBackground after the constructor's initializers;
\* trailPool is the number of pooled trail objects (a pooled object is in no
\* list), resetEvents lists the events that the last updateEvents() handed
\* to resetDotsFromEvent, in that order
GridFields(p) ==
    [ gravityTrails |-> << >>, trailPool |-> 0, isMouseInBounds |-> FALSE,
      maxTrails |-> MaxTrails(p),
      dots |-> << >>, events |-> << >>, lastEventTime |-> 0 - Epoch, waveTime |-> 0,
      fadeInProgress |-> 0, fadeInStartTime |-> 0, isFadingIn |-> TRUE,
      resetEvents |-> << >> ]

\* a push that never evicts
PushTrailUnbounded(g, x, y) ==
    [ g EXCEPT !.isMouseInBounds = TRUE,
               !.trailPool = IF @ > 0 THEN @ - 1 ELSE 0,
               !.gravityTrails = Append(@, [ x |-> x, y |-> y, strength |-> One, age |-> 0 ]) ]

\* the in-bounds branch of handleMouseMove: a trail at (x, y) is pushed and
\* the oldest is moved to the pool when there are more than maxTrails
PushTrail(g, x, y) ==
    LET pushed == Append(g.gravityTrails, [ x |-> x, y |-> y, strength |-> One, age |-> 0 ])
        popped == IF g.trailPool > 0 THEN g.trailPool - 1 ELSE 0
    IN  IF Len(pushed) > g.maxTrails
        THEN [ g EXCEPT !.isMouseInBounds = TRUE, !.gravityTrails = Tail(pushed),
                        !.trailPool = popped + 1 ]
        ELSE [ g EXCEPT !.isMouseInBounds = TRUE, !.gravityTrails = pushed,
                        !.trailPool = popped ]

\* (1 - normalizedDistance) for a distance and a radius in pixels, in
\* thousandths
Nearness(distance, radius) == One - Div(distance * One, radius)

\* the pull of one trail on a dot: << x, y, z >>
TrailPull(dot, trail) ==
    LET dx == trail.x - dot.baseX
        dy == trail.y - dot.baseY
        d2 == dx * dx + dy * dy
        distance == Sqrt(d2)
        near == Nearness(distance, GravityRadius)
        trailStrength ==
            Div(Div(near * near, One) * GravityStrength * trail.strength * 3, 10 * One)
    IN  IF d2 < GravityRadius * GravityRadius
        THEN << Div(dx * trailStrength * 8, distance), Div(dy * trailStrength * 8, distance),
                0 - trailStrength * 30 >>
        ELSE << 0, 0, 0 >>

\* the loop over the trails of calculateGravity, from trail i on
RECURSIVE TrailsPull(_, _, _)
TrailsPull(dot, trails, i) ==
    IF i > Len(trails) THEN << 0, 0, 0 >>
    ELSE LET head == TrailPull(dot, trails[i])
             rest == TrailsPull(dot, trails, i + 1)
         IN  << head[1] + rest[1], head[2] + rest[2], head[3] + rest[3] >>

\* the body of the loop over the dots of calculateGravity.  The mouse and
\* the trails are never exactly on a dot: a base has a random fraction
GravityOnDot(dot, mx, my, trails) ==
    LET dx == mx - dot.baseX
        dy == my - dot.baseY
        d2 == dx * dx + dy * dy
        distance == Sqrt(d2)
        near == Nearness(distance, GravityRadius)
        strength == Div(near * near, One) * GravityStrength
        mouse == IF d2 < GravityRadius * GravityRadius
                 THEN << Div(dx * strength * 10, distance), Div(dy * strength * 10, distance),
                         0 - strength * 50 >>
                 ELSE << 0, 0, 0 >>
        pull == TrailsPull(dot, trails, 1)
        total == << mouse[1] + pull[1], mouse[2] + pull[2], mouse[3] + pull[3] >>
    IN  IF total # << 0, 0, 0 >>
        THEN [ dot EXCEPT !.targetX = dot.baseX * One + total[1],
                          !.targetY = dot.baseY * One + total[2],
                          !.targetZ = total[3] ]
        ELSE dot

\* calculateGravity(): every trail ages and decays, those of strength at
\* most 0.1 go to the pool, and the mouse at (mx, my) and the trails pull
\* the dots
calculateGravity(g, mouseSupport, p, mx, my) ==
    IF ~ mouseSupport \/ ~ g.isMouseInBounds THEN g
    ELSE LET aged == [ i \in DOMAIN g.gravityTrails |->
                         [ g.gravityTrails[i] EXCEPT
                              !.age = @ + 1,
                              !.strength = Div(@ * p.trailDecay, 1000) ] ]
             valid == SelectSeq(aged, LAMBDA trail : trail.strength * 10 > One)
         IN  [ g EXCEPT !.gravityTrails = valid,
                        !.trailPool = @ + (Len(aged) - Len(valid)),
                        !.dots = [ k \in DOMAIN @ |-> GravityOnDot(@[k], mx, my, valid) ] ]

\* calculateWave()
calculateWave(g, p) ==
    LET waveTime == g.waveTime + WaveStep
        Wave(dot) ==
            LET diagonalPos == dot.baseX + dot.baseY
                wave == Sin(Deg(diagonalPos * WaveFrequency + waveTime))
            IN  [ dot EXCEPT
                    !.targetX = dot.baseX * One + Div(wave * WaveAmplitude * 7, 10),
                    !.targetY = dot.baseY * One + Div(wave * WaveAmplitude * 7, 10),
                    !.targetZ = Div(Sin(Deg(Div(diagonalPos * WaveFrequency, 2) + waveTime))
                                      * WaveAmplitude * 3, 10) ]
        Rest(dot) == [ dot EXCEPT !.targetX = dot.baseX * One, !.targetY = dot.baseY * One,
                                  !.targetZ = 0 ]
    IN  [ g EXCEPT !.waveTime = waveTime,
                   !.dots = [ k \in DOMAIN @ |-> IF p.waveEnabled THEN Wave(@[k]) ELSE Rest(@[k]) ] ]

\* the distance in pixels of a dot from an event
EventDistance(dot, event) ==
    Sqrt((event.x - dot.baseX) * (event.x - dot.baseX)
           + (event.y - dot.baseY) * (event.y - dot.baseY))

\* distanceSquared < eventRadiusSquared
InEvent(dot, event) ==
    (event.x - dot.baseX) * (event.x - dot.baseX)
      + (event.y - dot.baseY) * (event.y - dot.baseY) < event.radius * event.radius

\* Math.cos(angle) * length and Math.sin(angle) * length for angle =
\* Math.atan2(dy, dx), which is 0 when dx = dy = 0
Outward(dot, event, length) ==
    LET dx == event.x - dot.baseX
        dy == event.y - dot.baseY
        distance == EventDistance(dot, event)
    IN  IF distance = 0 THEN << length, 0 >>
        ELSE << Div(dx * length, distance), Div(dy * length, distance) >>

\* (1 - normalizedDistance) cubed
Cubed(near) == Div(Div(near * near, One) * near, One)

\* affectDotsWithEvent(event)
affectDotsWithEvent(dots, event) ==
    [ k \in DOMAIN dots |->
        LET dot == dots[k]
            near == Nearness(EventDistance(dot, event), event.radius)
            effectStrength == IF k - 1 = event.sourceDotIndex THEN One ELSE Cubed(near)
            out == Outward(dot, event, effectStrength * ShockwaveStrength)
            marked == IF k - 1 = event.sourceDotIndex
                      THEN [ dot EXCEPT !.eventPulse = One, !.eventColor = event.color,
                                        !.eventDelay = << 0 >> ]
                      ELSE [ dot EXCEPT !.eventPulse = 0, !.eventColor = event.color,
                                        !.eventDelay = << Div((One - near) * 300, One) >>,
                                        !.eventMaxStrength = << effectStrength >> ]
        IN  IF InEvent(dot, event)
            THEN [ marked EXCEPT !.targetX = dot.baseX * One + out[1],
                                 !.targetY = dot.baseY * One + out[2],
                                 !.targetZ = effectStrength * BounceStrength * BounceHeight ]
            ELSE dot ]

\* generateEvents() at time t; draw.multiplier is 0.5 + Math.random() and
\* draw.pick is the Math.random() that picks the dot, both in thousandths
generateEvents(g, t, p, draw) ==
    LET eventInterval == Div(Div(1000 * One, p.eventFrequency) * draw.multiplier, One)
        randomDotIndex == Div(draw.pick * Len(g.dots), One)
        event == [ x |-> g.dots[randomDotIndex + 1].baseX,
                   y |-> g.dots[randomDotIndex + 1].baseY,
                   startTime |-> t, duration |-> p.eventDuration,
                   radius |-> EventRadius, color |-> "#000000",
                   sourceDotIndex |-> randomDotIndex ]
    IN  IF ~ p.eventsEnabled THEN g
        ELSE IF t - g.lastEventTime > eventInterval
        THEN [ g EXCEPT !.events = Append(@, event),
                        !.lastEventTime = t,
                        !.dots = affectDotsWithEvent(@, event) ]
        ELSE g

\* Math.pow(1 - progress, this.rippleDecay) for rippleDecay = 1.5
RippleDecay(rest) == Div(rest * Sqrt(rest * One), One)

\* updateEventEffects(event, progress) at time t
updateEventEffects(dots, event, progress, t) ==
    LET ripple == Div(Sin(Div(progress * PI * RippleCount, One)) * RippleDecay(One - progress),
                      One)
        eventAge == t - event.startTime
    IN  [ k \in DOMAIN dots |->
            LET dot == dots[k]
                near == Nearness(EventDistance(dot, event), event.radius)
                delayed == k - 1 # event.sourceDotIndex /\ dot.eventDelay # Undefined
                delayProgress ==
                    Max(0, Min(One, Div((eventAge - dot.eventDelay[1]) * One, 200)))
                \* undefined * delayProgress is NaN
                effectStrength ==
                    IF delayed
                    THEN IF delayProgress > 0
                         THEN IF dot.eventMaxStrength = Undefined THEN NaN
                              ELSE Div(Div(dot.eventMaxStrength[1] * delayProgress, One)
                                         * (One - progress), One)
                         ELSE 0
                    ELSE IF k - 1 = event.sourceDotIndex THEN One - progress
                    ELSE Div(Cubed(near) * (One - progress), One)
                swing == Div(effectStrength * ripple, One)
                out == Outward(dot, event, swing * RippleOutwardStrength)
            IN  IF ~ InEvent(dot, event) THEN dot
                ELSE IF effectStrength = NaN
                THEN [ dot EXCEPT !.eventPulse = NaN, !.targetZ = NaN,
                                  !.targetX = NaN, !.targetY = NaN ]
                ELSE [ dot EXCEPT
                         !.eventPulse = IF delayed \/ k - 1 = event.sourceDotIndex
                                        THEN swing ELSE @,
                         !.targetZ = swing * RippleBounceStrength * BounceHeight,
                         !.targetX = dot.baseX * One + out[1],
                         !.targetY = dot.baseY * One + out[2] ] ]

\* resetDotsFromEvent(event)
resetDotsFromEvent(dots, event) ==
    [ k \in DOMAIN dots |->
        LET dot == dots[k]
            pulse == IF dot.eventPulse = NaN THEN NaN ELSE Div(dot.eventPulse * 9, 10)
        IN  IF InEvent(dot, event)
            THEN IF pulse # NaN /\ pulse * 10 < One
                 THEN [ dot EXCEPT !.eventPulse = 0, !.eventColor = "null",
                                   !.eventDelay = Undefined, !.eventMaxStrength = Undefined ]
                 ELSE [ dot EXCEPT !.eventPulse = pulse ]
            ELSE dot ]

\* the loop of updateEvents() at time t, from event i on; g.events collects
\* the events kept and g.resetEvents those reset
RECURSIVE UpdateEventsFrom(_, _, _, _)
UpdateEventsFrom(g, events, i, t) ==
    IF i > Len(events) THEN g
    ELSE LET event == events[i]
             eventAge == t - event.startTime
         IN  IF eventAge >= event.duration
             THEN UpdateEventsFrom(
                      [ g EXCEPT !.dots = resetDotsFromEvent(@, event),
                                 !.resetEvents = Append(@, event) ],
                      events, i + 1, t)
             ELSE UpdateEventsFrom(
                      [ g EXCEPT !.dots = updateEventEffects(@, event,
                                              Div(eventAge * One, event.duration), t),
                                 !.events = Append(@, event) ],
                      events, i + 1, t)

\* an updateEvents() that looks at no event
updateEventsNever(g, t) == [ g EXCEPT !.resetEvents = << >> ]

\* updateEvents() at time t
updateEvents(g, t) ==
    UpdateEventsFrom([ g EXCEPT !.events = << >>, !.resetEvents = << >> ], g.events, 1, t)

\* dot.x * speedInv + dot.targetX * speed
Approach(v, target) ==
    IF v = NaN \/ target = NaN THEN NaN
    ELSE Div(v * (One - AnimationSpeed) + target * AnimationSpeed, One)

\* updateDots()
updateDots(dots) ==
    [ k \in DOMAIN dots |->
        [ dots[k] EXCEPT !.x = Approach(@, dots[k].targetX),
                         !.y = Approach(@, dots[k].targetY),
                         !.z = Approach(@, dots[k].targetZ) ] ]

\* renderStaticDots(): the grid is created if there is none
renderStaticDots(g, r, p, draw) ==
    IF Len(g.dots) = 0 THEN [ g EXCEPT !.dots = createGrid(r, p, draw.seed) ] ELSE g

\* the fade-in step of render() at time t
FadeInGrid(g, t) ==
    IF g.isFadingIn
    THEN LET progress == Min(One, Div((t - g.fadeInStartTime) * One, FadeInDuration))
         IN  [ g EXCEPT !.fadeInProgress = progress, !.isFadingIn = progress < One ]
    ELSE g

\* a render() that animates whatever the preference
renderGridAlways(g, reduced, mouseSupport, p, r, t, mx, my, draw) ==
    LET faded  == FadeInGrid(g, t)
        events == updateEvents(generateEvents(faded, t, p, draw), t)
        pulled == calculateGravity(calculateWave(events, p), mouseSupport, p, mx, my)
    IN  [ pulled EXCEPT !.dots = updateDots(@) ]

\* render() of DotGridBackground in the box r at time t, the mouse at
\* (mx, my)
renderGrid(g, reduced, mouseSupport, p, r, t, mx, my, draw) ==
    IF reduced THEN renderStaticDots(g, r, p, draw)
    ELSE LET faded  == FadeInGrid(g, t)
             events == updateEvents(generateEvents(faded, t, p, draw), t)
             pulled == calculateGravity(calculateWave(events, p), mouseSupport, p, mx, my)
         IN  [ pulled EXCEPT !.dots = updateDots(@) ]

---------------------------------------------------------------------------
(* State                                                                   *)

VARIABLES
    \* the environment
    cls,                 \* the class of the element
    connected,           \* FALSE once disconnectedCallback has run
    rect,                \* getBoundingClientRect(): [width, height]
    media,               \* matchMedia('(prefers-reduced-motion: reduce)').matches
    now,                 \* Date.now()
    pendingFrames,       \* handles of the frame callbacks requested and not yet run or cancelled
    listeners,           \* the handlers of the element that are registered
    viewport,            \* the last IntersectionObserver entry delivered: "none", "visible" or "hidden"
    renderCount,         \* how often render() has run
    \* the fields of the element
    props,               \* the configuration options
    animationId, nodes, edges,
    angleX, angleY, angularVelX, angularVelY,
    lastEdgeUpdateTime, lastUpdateTime, lastRewireTime,
    prefersReducedMotion, hasMouseSupport,
    isDragging, lastPointerX, lastPointerY, mouseX, mouseY, userNodeActive,
    graphRadius, centerX, centerY,
    \* what the last render() drew for the interactive node
    userEdges, projectedUser,
    \* the graph edges in the order the last render() stroked them
    drawnEdges,
    \* the arguments and the result of the last call of project() from outside
    projection,
    \* the fields of a PyramidBuilder and the timeouts of the environment
    pyramid, timers,
    \* the trail fields of a DotGridBackground
    grid

rotationVars == << angleX, angleY, angularVelX, angularVelY >>

pointerVars == << isDragging, lastPointerX, lastPointerY, mouseX, mouseY, userNodeActive >>

graphVars == << nodes, edges, graphRadius, centerX, centerY >>

vars == << cls, connected, rect, media, now, pendingFrames, listeners, viewport,
           renderCount, props, animationId, nodes, edges,
           angleX, angleY, angularVelX, angularVelY,
           lastEdgeUpdateTime, lastUpdateTime, lastRewireTime,
           prefersReducedMotion, hasMouseSupport,
           isDragging, lastPointerX, lastPointerY, mouseX, mouseY, userNodeActive,
           graphRadius, centerX, centerY, userEdges, projectedUser, drawnEdges,
           projection, pyramid, timers, grid >>

---------------------------------------------------------------------------
(* Inputs of the environment                                               *)

\* the sizes the element takes; 0 x 0 is an element that has no layout box
Rects ==
    { [width |-> 0, height |-> 0], [width |-> 500, height |-> 400],
      [width |-> 300, height |-> 300] }

\* the Math.random() draws of one generateGraph call, per node index
RandomDraws ==
    { [ i \in 1..16 |-> IF i % 2 = 1 THEN << a, b >> ELSE << -a, -b >> ] :
        a \in {-1, 1}, b \in {-1, 1} }

\* pointer positions relative to the element's box: inside every non-empty
\* rect, inside the larger one only, and outside both
PointerPositions == { << 150, 150 >>, << 450, 100 >>, << -20, 200 >> }

\* the largest point count the page configures
MaxNodeCount == 9

\* values of nodeCount (in units of 1/Den): negative, below 8, fractional,
\* and up to MaxNodeCount
NodeCounts == { -3, 5 * Den, 8 * Den + 1, MaxNodeCount * Den }

\* the arguments of setProperties
PropertySets ==
    { [ nodeCount |-> n ] : n \in NodeCounts } \cup
    { [ connectionsPerNode |-> 3, maxNeighborAngle |-> PI ],
      [ connectionsPerNode |-> 2 * Den ] }

\* the largest drag velocity followed (thousandths of a degree per frame)
MaxVelocity == 10000

\* the clock of a PyramidBuilder advances in steps of PyramidTickMs, for
\* MaxPyramidTicks steps
PyramidTickMs == 500

MaxPyramidTicks == 8

\* the boxes of a PyramidBuilder: one for 4 layers, one for 6
PyramidRects == { [width |-> 100, height |-> 100], [width |-> 150, height |-> 150] }

\* the arguments of setProperties of a PyramidBuilder
PyramidPropertySets == { [ dotSpacing |-> 40 ] }

\* the clock advances in steps of TickMs
TickMs == 400

StartTime == 2 * EdgeUpdateIntervalMs

---------------------------------------------------------------------------
(* DataMeshGraph: the constructor's configuration                          *)

DefaultProps ==
    [ nodeCount |-> 120 * Den, connectionsPerNode |-> 3 * Den,
      maxNeighborAngle |-> 63, depth |-> Depth,
      rotationSpeedX |-> RotationSpeedX, rotationSpeedY |-> RotationSpeedY,
      edgeUpdateIntervalMs |-> EdgeUpdateIntervalMs,
      driftSpeedBase |-> DriftSpeedBase ]

\* Object.assign(this, properties)
Assign(target, properties) ==
    [ key \in DOMAIN target |->
        IF key \in DOMAIN properties THEN properties[key] ELSE target[key] ]

---------------------------------------------------------------------------
(* DataMeshGraph: render                                                   *)

\* the auto-rotation applied whatever the preference
AdvanceAngleAlways(angle, speed, vel, reduced) == angle + speed + vel

\* this.angleX += this.rotationSpeedX (unless reduced motion);
\* this.angleX += this.angularVelX
AdvanceAngle(angle, speed, vel, reduced) ==
    (IF reduced THEN angle ELSE angle + speed) + vel

\* the velocity carried over without the damping
DampNone(vel) == vel

\* this.angularVelX *= 0.96
Damp(vel) == Div(vel * Damping, 100)

\* the per-node drift loop of render
RenderNodes(ns, reduced, driftSpeedBase) ==
    IF reduced THEN ns ELSE DriftNodes(ns, driftSpeedBase)

\* computeEdgesIfDue without its early return
EdgesDueAlways(es, last, t, interval) == TRUE

\* the test at the head of computeEdgesIfDue
EdgesDue(es, last, t, interval) == ~ (t - last < interval /\ Len(es) # 0)

\* the interactive node computed whether or not userNodeActive is set
RenderUserAlways(active, mouseSupport, mx, my, cx, cy, radius, ax, ay) ==
    IF mouseSupport
    THEN mouseToSphereObjectSpace(mx, my, cx, cy, radius, ax, ay)
    ELSE << >>

\* the point the interactive node is drawn at this frame, or null
RenderUser(active, mouseSupport, mx, my, cx, cy, radius, ax, ay) ==
    IF active /\ mouseSupport
    THEN mouseToSphereObjectSpace(mx, my, cx, cy, radius, ax, ay)
    ELSE << >>

\* render()
render ==
    LET nodes1 == RenderNodes(nodes, prefersReducedMotion, props.driftSpeedBase)
        ax     == AdvanceAngle(angleX, props.rotationSpeedX, angularVelX, prefersReducedMotion)
        ay     == AdvanceAngle(angleY, props.rotationSpeedY, angularVelY, prefersReducedMotion)
        due    == EdgesDue(edges, lastEdgeUpdateTime, now, props.edgeUpdateIntervalMs)
        user   == RenderUser(userNodeActive, hasMouseSupport, mouseX, mouseY,
                             centerX, centerY, graphRadius, ax, ay)
    IN  /\ angleX' = ax
        /\ angleY' = ay
        /\ angularVelX' = Damp(angularVelX)
        /\ angularVelY' = Damp(angularVelY)
        /\ lastUpdateTime' = now
        /\ nodes' = nodes1
        /\ edges' = IF due
                    THEN computeEdges(nodes1, props.connectionsPerNode, props.maxNeighborAngle)
                    ELSE edges
        /\ lastEdgeUpdateTime' = IF due THEN now ELSE lastEdgeUpdateTime
        /\ projectedUser' = IF user = << >> THEN << >>
                            ELSE << project(user[1], ax, ay, props.depth, centerX, centerY) >>
        /\ userEdges' = IF user = << >> THEN << >>
                        ELSE UserEdges(nodes1, user[1], props.connectionsPerNode,
                                       props.maxNeighborAngle)
        /\ drawnEdges' =
              LET projected == [ i \in DOMAIN nodes1 |->
                                   project(nodes1[i], ax, ay, props.depth, centerX, centerY) ]
              IN  DrawOrder(edges', projected)
        /\ renderCount' = renderCount + 1

renderVars == << angleX, angleY, angularVelX, angularVelY, lastUpdateTime, nodes, edges,
                 lastEdgeUpdateTime, projectedUser, userEdges, drawnEdges, renderCount >>

\* what render() of DataMeshGraph writes, the frame count apart
dataMeshFrame == << angleX, angleY, angularVelX, angularVelY, lastUpdateTime, nodes, edges,
                    lastEdgeUpdateTime, projectedUser, userEdges, drawnEdges >>

\* the Math.random() draws of one frame of a DotGridBackground, in
\* thousandths: 0.5 + Math.random() of generateEvents, the Math.random() that
\* picks the dot of the event, and the seed of createGrid
GridDraws ==
    { [ multiplier |-> 500, pick |-> 0, seed |-> 0 ],
      [ multiplier |-> 1400, pick |-> 500, seed |-> 1 ] }

\* render() of the class; the three classes share no field but those of
\* the run state
renderOf ==
    CASE cls = "DataMeshGraph" ->
             /\ render
             /\ UNCHANGED << pyramid, timers, grid >>
      [] cls = "PyramidBuilder" ->
             /\ renderCount' = renderCount + 1
             /\ pyramid' = renderPyramid(pyramid, timers, now, props).py
             /\ timers' = renderPyramid(pyramid, timers, now, props).tm
             /\ UNCHANGED << dataMeshFrame, grid >>
      [] cls = "DotGridBackground" ->
             /\ renderCount' = renderCount + 1
             /\ \E draw \in GridDraws :
                    grid' = renderGrid(grid, prefersReducedMotion, hasMouseSupport, props,
                                       rect, now, mouseX, mouseY, draw)
             /\ UNCHANGED << dataMeshFrame, pyramid, timers >>

\* the frames followed per class
FrameLimit(c) == IF c = "PyramidBuilder" THEN MaxPyramidRenders ELSE MaxRenders

\* animate(), entered with the set of frame callbacks still pending
animate(pending) ==
    /\ renderCount < FrameLimit(cls)
    /\ renderOf
    /\ animationId' = renderCount + 1
    /\ pendingFrames' = pending \cup { renderCount + 1 }

\* startAnimation() without the test of this.animationId
startAnimationUnguarded == animate(pendingFrames)

\* startAnimation()
startAnimation ==
    IF animationId = 0 THEN animate(pendingFrames)
    ELSE UNCHANGED << renderVars, animationId, pendingFrames, pyramid, timers, grid >>

\* the second half of stopAnimation() of PyramidBuilder; the other classes
\* have no build timer
stopBuildTimer ==
    IF cls = "PyramidBuilder"
    THEN /\ pyramid' = clearBuildTimer(pyramid, timers).py
         /\ timers' = clearBuildTimer(pyramid, timers).tm
    ELSE UNCHANGED << pyramid, timers >>

\* stopAnimation() forgetting cancelAnimationFrame
stopAnimationLeak ==
    /\ animationId' = 0
    /\ UNCHANGED pendingFrames
    /\ stopBuildTimer

\* stopAnimation()
stopAnimation ==
    /\ IF animationId # 0
       THEN /\ pendingFrames' = pendingFrames \ { animationId }
            /\ animationId' = 0
       ELSE UNCHANGED << animationId, pendingFrames >>
    /\ stopBuildTimer

---------------------------------------------------------------------------
(* The three classes                                                       *)

Classes == { "DataMeshGraph", "DotGridBackground", "PyramidBuilder" }

\* the handlers bindEvents registers
BoundListeners(c, mouseSupport) ==
    CASE c = "DataMeshGraph" ->
             { "resize", "change", "intersection",
               "pointerdown", "pointermove", "pointerup", "pointerleave" }
      [] c = "DotGridBackground" ->
             { "resize", "change", "intersection" } \cup
             (IF mouseSupport THEN { "mousemove", "mouseenter", "mouseleave" } ELSE {})
      [] c = "PyramidBuilder" ->
             { "resize", "intersection", "mousemove", "mouseenter", "mouseleave" }

\* disconnectedCallback passing unbound methods, as the other classes do
ReleasedListenersUnbound(c) == { "intersection" }

\* the handlers disconnectedCallback releases.  DataMeshGraph kept the
\* functions it registered for resize and change; the other two classes
\* registered this.handleX.bind(this) and pass the unbound method to
\* removeEventListener, which removes nothing.
ReleasedListeners(c) ==
    IF c = "DataMeshGraph" THEN { "resize", "change", "intersection" }
    ELSE { "intersection" }

---------------------------------------------------------------------------
(* Initial state: the element as constructed in a page that has called     *)
(* setProperties({nodeCount}) once; the constructor has run init(), which  *)
(* rendered the first frame and requested the second                       *)

\* generateGraph() without this.edges = []
GenerateGraphKeepEdges(rnd) ==
    /\ nodes' = generateGraph(rect', props'.nodeCount, rnd)
    /\ edges' = edges
    /\ graphRadius' = GraphRadius(rect')
    /\ centerX' = Div(rect'.width, 2)
    /\ centerY' = Div(rect'.height, 2)

\* generateGraph(): the fields it writes
GenerateGraph(rnd) ==
    /\ nodes' = generateGraph(rect', props'.nodeCount, rnd)
    /\ edges' = << >>
    /\ graphRadius' = GraphRadius(rect')
    /\ centerX' = Div(rect'.width, 2)
    /\ centerY' = Div(rect'.height, 2)

InitWith(classes, rects, nodeCounts, draws) ==
    /\ cls \in classes
    /\ connected = TRUE
    /\ rect \in rects
    /\ media \in BOOLEAN
    /\ now = StartTime
    /\ pendingFrames = { 1 }
    /\ animationId = 1
    /\ renderCount = 1
    /\ hasMouseSupport \in BOOLEAN
    /\ listeners = BoundListeners(cls, hasMouseSupport)
    /\ viewport = "none"
    /\ prefersReducedMotion = (cls # "PyramidBuilder" /\ media)
    /\ isDragging = FALSE
    /\ lastPointerX = 0 /\ lastPointerY = 0 /\ mouseX = 0 /\ mouseY = 0
    /\ userNodeActive = FALSE
    /\ userEdges = << >>
    /\ projectedUser = << >>
    /\ drawnEdges = << >>
    /\ projection = << >>
    /\ timers = NoTimers
    /\ pyramid = IF cls = "PyramidBuilder"
                 THEN Store([ PyramidFields EXCEPT !.fadeInStartTime = StartTime ],
                            createPyramidStructure(rect, PyramidDefaults))
                 ELSE PyramidFields
    /\ IF cls = "DotGridBackground"
       THEN \E draw \in GridDraws :
               grid = renderGrid([ GridFields(GridDefaults) EXCEPT
                                     !.dots = createGrid(rect, GridDefaults, draw.seed),
                                     !.fadeInStartTime = StartTime ],
                                 prefersReducedMotion, hasMouseSupport, GridDefaults,
                                 rect, StartTime, 0, 0, draw)
       ELSE grid = GridFields(GridDefaults)
    /\ lastRewireTime = 0
    /\ angularVelX = 0 /\ angularVelY = 0
    /\ IF cls = "DataMeshGraph"
       THEN /\ \E n \in nodeCounts : props = Assign(DefaultProps, [ nodeCount |-> n ])
            /\ \E rnd \in draws : nodes = generateGraph(rect, props.nodeCount, rnd)
            /\ edges = << >>
            /\ graphRadius = GraphRadius(rect)
            /\ centerX = Div(rect.width, 2)
            /\ centerY = Div(rect.height, 2)
            /\ angleX = AdvanceAngle(0, RotationSpeedX, 0, media)
            /\ angleY = AdvanceAngle(0, RotationSpeedY, 0, media)
            /\ lastEdgeUpdateTime = StartTime
            /\ lastUpdateTime = StartTime
       ELSE /\ props = IF cls = "PyramidBuilder" THEN PyramidDefaults ELSE GridDefaults
            /\ nodes = << >> /\ edges = << >>
            /\ graphRadius = 0 /\ centerX = 0 /\ centerY = 0
            /\ angleX = 0 /\ angleY = 0
            /\ lastEdgeUpdateTime = 0 /\ lastUpdateTime = 0

---------------------------------------------------------------------------
(* The frame callback and the viewport                                     *)

\* the browser runs a pending frame callback, which is animate()
FrameCallback ==
    /\ \E id \in pendingFrames : animate(pendingFrames \ { id })
    /\ UNCHANGED << cls, projection, connected, rect, media, now, listeners, viewport, props,
                    lastRewireTime, prefersReducedMotion, hasMouseSupport, pointerVars,
                    graphRadius, centerX, centerY >>

\* the IntersectionObserver callback with an entry that is intersecting
IntersectionVisible ==
    /\ "intersection" \in listeners
    /\ startAnimation
    /\ viewport' = "visible"
    /\ UNCHANGED << cls, projection, connected, rect, media, now, listeners, props,
                    lastRewireTime, prefersReducedMotion, hasMouseSupport, pointerVars,
                    graphRadius, centerX, centerY >>

\* the IntersectionObserver callback with an entry that is not intersecting
IntersectionHidden ==
    /\ "intersection" \in listeners
    /\ stopAnimation
    /\ viewport' = "hidden"
    /\ UNCHANGED << cls, projection, grid, connected, rect, media, now, listeners, props,
                    renderVars,
                    lastRewireTime, prefersReducedMotion, hasMouseSupport, pointerVars,
                    graphRadius, centerX, centerY >>

\* the clock advances
Tick ==
    /\ now < StartTime + MaxTicks * TickMs
    /\ now' = now + TickMs
    /\ UNCHANGED << cls, projection, pyramid, timers, grid, connected, rect, media, pendingFrames, listeners, viewport,
                    renderCount, props, animationId, nodes, edges, rotationVars,
                    lastEdgeUpdateTime, lastUpdateTime, lastRewireTime,
                    prefersReducedMotion, hasMouseSupport, pointerVars,
                    graphRadius, centerX, centerY, userEdges, projectedUser, drawnEdges >>

---------------------------------------------------------------------------
(* Notifications of the environment                                        *)

\* the element's box changes to one of rects and the window fires resize;
\* the handler is resizeCanvas
Resize(rects, draws) ==
    /\ \E r \in rects : r # rect /\ rect' = r
    /\ UNCHANGED props
    /\ IF "resize" \in listeners /\ cls = "DataMeshGraph"
       THEN \E rnd \in draws : GenerateGraph(rnd)
       ELSE UNCHANGED graphVars
    /\ IF "resize" \in listeners /\ cls = "PyramidBuilder"
       THEN pyramid' = Store(pyramid, createPyramidStructure(rect', props))
       ELSE UNCHANGED pyramid
    /\ IF "resize" \in listeners /\ cls = "DotGridBackground"
       THEN \E seed \in GridSeeds : grid' = [ grid EXCEPT !.dots = createGrid(rect', props, seed) ]
       ELSE UNCHANGED grid
    /\ UNCHANGED << cls, projection, timers, connected, media, now, pendingFrames,
                    listeners, viewport,
                    renderCount, animationId, rotationVars,
                    lastEdgeUpdateTime, lastUpdateTime, lastRewireTime,
                    prefersReducedMotion, hasMouseSupport, pointerVars,
                    userEdges, projectedUser, drawnEdges >>

\* the reduced-motion preference changes; the handler is
\* handleReducedMotionChange
ReducedMotionChange ==
    /\ media' = ~ media
    /\ prefersReducedMotion' =
           IF "change" \in listeners THEN media' ELSE prefersReducedMotion
    /\ IF "change" \in listeners /\ cls = "DotGridBackground"
       THEN \E seed \in GridSeeds : grid' = [ grid EXCEPT !.dots = createGrid(rect, props, seed) ]
       ELSE UNCHANGED grid
    /\ UNCHANGED << cls, projection, pyramid, timers, connected, rect, now, pendingFrames, listeners, viewport,
                    renderCount, props, animationId, graphVars, rotationVars,
                    lastEdgeUpdateTime, lastUpdateTime, lastRewireTime,
                    hasMouseSupport, pointerVars, userEdges, projectedUser, drawnEdges >>

\* what no pointer handler of DataMeshGraph writes
pointerFrame ==
    << cls, projection, pyramid, timers, grid, connected, rect, media, now, pendingFrames, listeners, viewport,
       renderCount, props, animationId, graphVars, angleX, angleY,
       lastEdgeUpdateTime, lastUpdateTime, lastRewireTime,
       prefersReducedMotion, hasMouseSupport, userEdges, projectedUser, drawnEdges >>

\* onPointerDown(e), e.clientX and e.clientY taken relative to the box
onPointerDown(positions) ==
    /\ cls = "DataMeshGraph" /\ "pointerdown" \in listeners
    /\ \E p \in positions : lastPointerX' = p[1] /\ lastPointerY' = p[2]
    /\ isDragging' = TRUE
    /\ UNCHANGED << pointerFrame, mouseX, mouseY, userNodeActive, angularVelX, angularVelY >>

\* this.mouseX >= 0 && this.mouseX <= rect.width && ...
InBounds(mx, my, r) == mx >= 0 /\ mx <= r.width /\ my >= 0 /\ my <= r.height

\* onPointerMove(e)
onPointerMove(positions) ==
    /\ cls = "DataMeshGraph" /\ "pointermove" \in listeners
    /\ \E p \in positions :
          /\ mouseX' = p[1]
          /\ mouseY' = p[2]
          /\ IF isDragging
             THEN /\ lastPointerX' = p[1]
                  /\ lastPointerY' = p[2]
                  /\ angularVelY' = angularVelY - (p[1] - lastPointerX) * DragGain
                  /\ angularVelX' = angularVelX - (p[2] - lastPointerY) * DragGain
                  /\ Abs(angularVelX') <= MaxVelocity
                  /\ Abs(angularVelY') <= MaxVelocity
             ELSE UNCHANGED << lastPointerX, lastPointerY, angularVelX, angularVelY >>
          /\ userNodeActive' = (hasMouseSupport /\ InBounds(p[1], p[2], rect))
    /\ UNCHANGED << pointerFrame, isDragging >>

\* onPointerUp(e)
onPointerUp ==
    /\ cls = "DataMeshGraph" /\ "pointerup" \in listeners
    /\ isDragging' = FALSE
    /\ UNCHANGED << pointerFrame, lastPointerX, lastPointerY, mouseX, mouseY,
                    userNodeActive, angularVelX, angularVelY >>

\* onPointerLeave()
onPointerLeave ==
    /\ cls = "DataMeshGraph" /\ "pointerleave" \in listeners
    /\ isDragging' = FALSE
    /\ userNodeActive' = FALSE
    /\ UNCHANGED << pointerFrame, lastPointerX, lastPointerY, mouseX, mouseY,
                    angularVelX, angularVelY >>

---------------------------------------------------------------------------
(* The public methods and detachment                                       *)

\* setProperties(properties) of DataMeshGraph
setProperties(propertySets, draws) ==
    /\ cls = "DataMeshGraph"
    /\ \E properties \in propertySets :
          /\ Assign(props, properties) # props
          /\ props' = Assign(props, properties)
    /\ prefersReducedMotion' = media
    /\ UNCHANGED rect
    /\ \E rnd \in draws : GenerateGraph(rnd)
    /\ UNCHANGED << cls, projection, pyramid, timers, grid, connected, media, now, pendingFrames, listeners, viewport,
                    renderCount, animationId, rotationVars,
                    lastEdgeUpdateTime, lastUpdateTime, lastRewireTime,
                    hasMouseSupport, pointerVars, userEdges, projectedUser, drawnEdges >>

\* reset() of DataMeshGraph
resetDataMesh(draws) ==
    /\ cls = "DataMeshGraph"
    /\ angleX' = 0
    /\ angleY' = 0
    /\ lastRewireTime' = 0
    /\ UNCHANGED << rect, props >>
    /\ \E rnd \in draws : GenerateGraph(rnd)
    /\ UNCHANGED << cls, projection, pyramid, timers, grid, connected, media, now, pendingFrames, listeners, viewport,
                    renderCount, animationId, angularVelX, angularVelY,
                    lastEdgeUpdateTime, lastUpdateTime,
                    prefersReducedMotion, hasMouseSupport, pointerVars,
                    userEdges, projectedUser, drawnEdges >>

\* reset() of PyramidBuilder: stopAnimation(), the fade-in restarted,
\* createPyramidStructure(), then startAnimation(), which renders
resetPyramid ==
    /\ cls = "PyramidBuilder"
    /\ renderCount < FrameLimit(cls)
    /\ LET stopped == clearBuildTimer(pyramid, timers)
           created == Store([ stopped.py EXCEPT !.isFadingIn = TRUE,
                                                !.fadeInStartTime = now ],
                            createPyramidStructure(rect, props))
           drawn   == renderPyramid(created, stopped.tm, now, props)
       IN  /\ pyramid' = drawn.py
           /\ timers' = drawn.tm
    /\ renderCount' = renderCount + 1
    /\ animationId' = renderCount + 1
    /\ pendingFrames' = (pendingFrames \ { animationId }) \cup { renderCount + 1 }
    /\ UNCHANGED << cls, projection, grid, dataMeshFrame, connected, rect, media, now,
                    listeners, viewport, props,
                    lastRewireTime, prefersReducedMotion, hasMouseSupport, pointerVars,
                    graphRadius, centerX, centerY >>

\* setProperties(properties) of PyramidBuilder
setPropertiesPyramid(propertySets) ==
    /\ cls = "PyramidBuilder"
    /\ \E properties \in propertySets :
          /\ Assign(props, properties) # props
          /\ props' = Assign(props, properties)
    /\ pyramid' = Store(pyramid, createPyramidStructure(rect, props'))
    /\ UNCHANGED << cls, projection, timers, grid, connected, rect, media, now,
                    pendingFrames, listeners, viewport, renderVars, animationId,
                    graphRadius, centerX, centerY,
                    lastRewireTime, prefersReducedMotion, hasMouseSupport, pointerVars >>

\* the build timer set by addNextDot() runs: addNextDot()
BuildTimerFires ==
    /\ cls = "PyramidBuilder"
    /\ \E timer \in timers.pending :
          /\ timer.due <= now
          /\ LET tm  == [ timers EXCEPT !.pending = @ \ { timer } ]
                 ran == addNextDot(pyramid, tm, now, props)
             IN  /\ pyramid' = ran.py
                 /\ timers' = ran.tm
    /\ UNCHANGED << cls, projection, grid, connected, rect, media, now,
                    pendingFrames, listeners, viewport, renderVars, animationId, props,
                    graphRadius, centerX, centerY,
                    lastRewireTime, prefersReducedMotion, hasMouseSupport, pointerVars >>

\* the clock advances by ms, up to limit after the start
Advance(ms, limit) ==
    /\ now + ms <= StartTime + limit
    /\ now' = now + ms
    /\ UNCHANGED << cls, projection, pyramid, timers, grid, connected, rect, media,
                    pendingFrames, listeners, viewport, renderVars, animationId, props,
                    graphRadius, centerX, centerY,
                    lastRewireTime, prefersReducedMotion, hasMouseSupport, pointerVars >>

\* setProperties(properties) of DotGridBackground
setPropertiesGrid(propertySets) ==
    /\ cls = "DotGridBackground"
    /\ \E properties \in propertySets : props' = Store(props, properties)
    /\ prefersReducedMotion' = media
    /\ \E seed \in GridSeeds :
          grid' = [ grid EXCEPT !.maxTrails = MaxTrails(props'),
                                !.dots = createGrid(rect, props', seed) ]
    /\ UNCHANGED << cls, projection, pyramid, timers, connected, rect, media, now,
                    pendingFrames, listeners, viewport, renderVars, animationId,
                    graphRadius, centerX, centerY,
                    lastRewireTime, hasMouseSupport, pointerVars >>

\* handleMouseMove(event) of DotGridBackground, the event taken relative to
\* the box
handleMouseMove(positions) ==
    /\ cls = "DotGridBackground" /\ "mousemove" \in listeners
    /\ \E q \in positions :
          IF InBounds(q[1], q[2], rect)
          THEN /\ grid' = PushTrail(grid, q[1], q[2])
               /\ mouseX' = q[1]
               /\ mouseY' = q[2]
          ELSE /\ grid' = [ grid EXCEPT !.isMouseInBounds = FALSE ]
               /\ UNCHANGED << mouseX, mouseY >>
    /\ UNCHANGED << cls, projection, pyramid, timers, connected, rect, media, now,
                    pendingFrames, listeners, viewport, renderVars, animationId, props,
                    graphRadius, centerX, centerY,
                    lastRewireTime, prefersReducedMotion, hasMouseSupport,
                    isDragging, lastPointerX, lastPointerY, userNodeActive >>

\* handleMouseLeave() of DotGridBackground
handleMouseLeave ==
    /\ cls = "DotGridBackground" /\ "mouseleave" \in listeners
    /\ grid' = [ grid EXCEPT !.isMouseInBounds = FALSE, !.gravityTrails = << >> ]
    /\ UNCHANGED << cls, projection, pyramid, timers, connected, rect, media, now,
                    pendingFrames, listeners, viewport, renderVars, animationId, props,
                    graphRadius, centerX, centerY,
                    lastRewireTime, prefersReducedMotion, hasMouseSupport, pointerVars >>

\* the arguments of a call of project(point, ax, ay) on point i with the
\* current angles, and what it returns
Projection(i) ==
    [ point |-> i, x |-> nodes[i].x, y |-> nodes[i].y, z |-> nodes[i].z,
      ax |-> angleX, ay |-> angleY,
      depth |-> props.depth, centerX |-> centerX, centerY |-> centerY,
      result |-> project(nodes[i], angleX, angleY, props.depth, centerX, centerY) ]

\* a call of project(point, ax, ay) on point i with angles of the caller's
\* choice
ProjectionAt(i, ax, ay) ==
    [ point |-> i, x |-> nodes[i].x, y |-> nodes[i].y, z |-> nodes[i].z,
      ax |-> ax, ay |-> ay,
      depth |-> props.depth, centerX |-> centerX, centerY |-> centerY,
      result |-> project(nodes[i], ax, ay, props.depth, centerX, centerY) ]

\* a caller invokes project(point, ax, ay) on one of the points with angles
\* from the set angles
callProjectAt(angles) ==
    /\ cls = "DataMeshGraph"
    /\ \E i \in DOMAIN nodes, ax \in angles, ay \in angles :
          projection' = << ProjectionAt(i, ax, ay) >>
    /\ UNCHANGED << cls, pyramid, timers, grid, connected, rect, media, now,
                    pendingFrames, listeners, viewport,
                    renderCount, props, animationId, graphVars,
                    rotationVars, lastEdgeUpdateTime, lastUpdateTime, lastRewireTime,
                    prefersReducedMotion, hasMouseSupport, pointerVars,
                    userEdges, projectedUser, drawnEdges >>

\* a project() that stores the rotated coordinates back into the point
callProjectInPlace ==
    /\ cls = "DataMeshGraph"
    /\ \E i \in DOMAIN nodes :
          /\ projection' = << Projection(i) >>
          /\ nodes' = [ nodes EXCEPT ![i].x = Projection(i).result.x ]
    /\ UNCHANGED << cls, pyramid, timers, grid, connected, rect, media, now,
                    pendingFrames, listeners, viewport,
                    renderCount, props, animationId, edges, graphRadius, centerX, centerY,
                    rotationVars, lastEdgeUpdateTime, lastUpdateTime, lastRewireTime,
                    prefersReducedMotion, hasMouseSupport, pointerVars,
                    userEdges, projectedUser, drawnEdges >>

\* a caller invokes project(point, ax, ay) on one of the points with the
\* current angles
callProject ==
    /\ cls = "DataMeshGraph"
    /\ \E i \in DOMAIN nodes : projection' = << Projection(i) >>
    /\ UNCHANGED << cls, pyramid, timers, grid, connected, rect, media, now,
                    pendingFrames, listeners, viewport,
                    renderCount, props, animationId, graphVars,
                    rotationVars, lastEdgeUpdateTime, lastUpdateTime, lastRewireTime,
                    prefersReducedMotion, hasMouseSupport, pointerVars,
                    userEdges, projectedUser, drawnEdges >>

\* disconnectedCallback()
disconnectedCallback ==
    /\ connected
    /\ connected' = FALSE
    /\ stopAnimation
    /\ listeners' = listeners \ ReleasedListeners(cls)
    /\ UNCHANGED << cls, projection, grid, rect, media, now, viewport, props, renderVars,
                    lastRewireTime, prefersReducedMotion, hasMouseSupport, pointerVars,
                    graphRadius, centerX, centerY >>

-------------------------------------------------------------------------------------------------------------------------------------------
(* Specifications.  Each one lets the environment produce the events that  *)
(* the properties checked under it are about.                              *)

\* one box with a layout and the box without
LaidOut == [width |-> 500, height |-> 400]

NoLayout == [width |-> 0, height |-> 0]

\* one draw
OneDraw == { [ i \in 1..16 |-> IF i % 2 = 1 THEN << 1, -1 >> ELSE << -1, 1 >> ] }

\* a position inside LaidOut and one outside it
Inside == << 150, 150 >>

Outside == << -20, 200 >>

\* Detachment of a DataMeshGraph among the notifications of the environment
InitDetach == InitWith({ "DataMeshGraph" }, { LaidOut }, { 8 * Den }, OneDraw)

NextDetach ==
    \/ FrameCallback
    \/ IntersectionVisible
    \/ IntersectionHidden
    \/ Resize({ LaidOut, NoLayout }, OneDraw)
    \/ ReducedMotionChange
    \/ onPointerDown({ Inside })
    \/ onPointerMove({ Inside })
    \/ onPointerUp
    \/ onPointerLeave
    \/ disconnectedCallback

SpecDetach == InitDetach /\ [][NextDetach]_vars

\* The run states of the three classes under viewport notifications
InitViewport == InitWith(Classes, Rects, NodeCounts, OneDraw)

NextViewport ==
    \/ FrameCallback
    \/ IntersectionVisible
    \/ IntersectionHidden

SpecViewport == InitViewport /\ [][NextViewport]_vars

\* Regeneration of the graph of a DataMeshGraph
InitGraph == InitWith({ "DataMeshGraph" }, Rects, NodeCounts, RandomDraws)

NextGraph ==
    \/ FrameCallback
    \/ Resize(Rects, OneDraw)
    \/ setProperties(PropertySets, OneDraw)
    \/ resetDataMesh(OneDraw)

SpecGraph == InitGraph /\ [][NextGraph]_vars

\* drift, rotation and dragging
InitMotion == InitWith({ "DataMeshGraph" }, { LaidOut }, { 8 * Den, MaxNodeCount * Den },
                       RandomDraws)

NextMotion ==
    \/ FrameCallback
    \/ ReducedMotionChange
    \/ onPointerDown({ Inside })
    \/ onPointerMove({ Inside, Outside })
    \/ onPointerUp

SpecMotion == InitMotion /\ [][NextMotion]_vars

\* the neighbor graph: setProperties with a neighbor count of 0.5 and the
\* widest angle, a neighbor count of 2, and a narrow angle
EdgeProperties ==
    { [ connectionsPerNode |-> 1, maxNeighborAngle |-> PI ],
      [ connectionsPerNode |-> 2 * Den ],
      [ maxNeighborAngle |-> 45 ] }

InitEdges == InitWith({ "DataMeshGraph" }, { LaidOut, NoLayout },
                      { 8 * Den, MaxNodeCount * Den }, RandomDraws)

NextEdges ==
    \/ FrameCallback
    \/ Tick
    \/ setProperties(EdgeProperties, OneDraw)

SpecEdges == InitEdges /\ [][NextEdges]_vars

\* the interactive node
InitPointer == InitWith({ "DataMeshGraph" }, Rects, { 8 * Den }, OneDraw)

NextPointer ==
    \/ FrameCallback
    \/ Resize(Rects, OneDraw)
    \/ onPointerDown({ Inside })
    \/ onPointerMove(PointerPositions)
    \/ onPointerUp
    \/ onPointerLeave

SpecPointer == InitPointer /\ [][NextPointer]_vars

\* rotation angles in thousandths of a degree, all around the circle
Angles == { 30000, 135000, 300000 }

\* depths below and above the radius of the sphere of LaidOut, which is 160
DepthProperties == { [ depth |-> 100 ], [ depth |-> Depth ] }

\* calls of project with any angles, for several depths
InitDepth == InitWith({ "DataMeshGraph" }, { LaidOut }, { 8 * Den }, OneDraw)

NextDepth ==
    \/ FrameCallback
    \/ callProjectAt(Angles)
    \/ setProperties(DepthProperties, OneDraw)

SpecDepth == InitDepth /\ [][NextDepth]_vars

\* calls of project between frames
InitProject == InitWith({ "DataMeshGraph" }, { LaidOut, NoLayout }, { 8 * Den }, OneDraw)

NextProject ==
    \/ FrameCallback
    \/ callProject

SpecProject == InitProject /\ [][NextProject]_vars

\* dragging and inertia, with the public methods called in between
InitInertia == InitWith({ "DataMeshGraph" }, { LaidOut }, { 8 * Den }, OneDraw)

NextInertia ==
    \/ FrameCallback
    \/ onPointerDown({ Inside })
    \/ onPointerMove({ Inside, Outside })
    \/ onPointerUp
    \/ onPointerLeave
    \/ ReducedMotionChange
    \/ setProperties({ [ connectionsPerNode |-> 2 * Den ] }, OneDraw)
    \/ resetDataMesh(OneDraw)

SpecInertia == InitInertia /\ [][NextInertia]_vars

\* a PyramidBuilder building, resized, reconfigured, reset and hidden
InitPyramid == InitWith({ "PyramidBuilder" }, PyramidRects, { 8 * Den }, OneDraw)

NextPyramid ==
    \/ FrameCallback
    \/ BuildTimerFires
    \/ Advance(PyramidTickMs, MaxPyramidTicks * PyramidTickMs)
    \/ Resize(PyramidRects, OneDraw)
    \/ setPropertiesPyramid(PyramidPropertySets)
    \/ resetPyramid

SpecPyramid == InitPyramid /\ [][NextPyramid]_vars

\* a PyramidBuilder building while it is resized, hidden, shown, reset and
\* detached
NextTimers ==
    \/ FrameCallback
    \/ BuildTimerFires
    \/ Advance(PyramidTickMs, MaxPyramidTicks * PyramidTickMs)
    \/ Resize(PyramidRects, OneDraw)
    \/ IntersectionHidden
    \/ IntersectionVisible
    \/ resetPyramid
    \/ disconnectedCallback

SpecTimers == InitPyramid /\ [][NextTimers]_vars

\* a PyramidBuilder building while it is resized, hidden and shown
NextResume ==
    \/ FrameCallback
    \/ BuildTimerFires
    \/ Advance(PyramidTickMs, MaxPyramidTicks * PyramidTickMs)
    \/ Resize(PyramidRects, OneDraw)
    \/ IntersectionHidden
    \/ IntersectionVisible

SpecResume == InitPyramid /\ [][NextResume]_vars

\* the box of a DotGridBackground
GridRect == [width |-> 100, height |-> 100]

\* mouse positions relative to GridRect: two inside, one outside, none on
\* the base of a dot
GridPositions == { << 40, 60 >>, << 80, 20 >>, << -20, 60 >> }

\* a DotGridBackground under mouse moves, mouse leaves and frames
InitGrid == InitWith({ "DotGridBackground" }, { GridRect }, { 8 * Den }, OneDraw)

NextGrid ==
    \/ FrameCallback
    \/ handleMouseMove(GridPositions)
    \/ handleMouseLeave

SpecGrid == InitGrid /\ [][NextGrid]_vars

\* the clock of a DotGridBackground advances in steps of GridTickMs, for
\* MaxGridTicks steps
GridTickMs == 700

MaxGridTicks == 3

\* a box other than GridRect
WideRect == [width |-> 150, height |-> 100]

\* the arguments of setProperties of a DotGridBackground
GridPropertySets == { [ trailLength |-> 2 ] }

\* a DotGridBackground whose page changes the reduced-motion preference
InitStill == InitWith({ "DotGridBackground" }, { GridRect }, { 8 * Den }, OneDraw)

NextStill ==
    \/ FrameCallback
    \/ ReducedMotionChange
    \/ Resize({ GridRect, WideRect }, OneDraw)
    \/ setPropertiesGrid(GridPropertySets)
    \/ handleMouseMove({ << 40, 60 >> })

SpecStill == InitStill /\ [][NextStill]_vars

\* a DotGridBackground whose events start, age and end
InitEvents == InitWith({ "DotGridBackground" }, { GridRect }, { 8 * Den }, OneDraw)

NextEvents ==
    \/ FrameCallback
    \/ Advance(GridTickMs, MaxGridTicks * GridTickMs)

SpecEvents == InitEvents /\ [][NextEvents]_vars

\* a DotGridBackground or a PyramidBuilder that is removed from the document
InitRelease ==
    InitWith({ "DotGridBackground", "PyramidBuilder" }, PyramidRects, { 8 * Den }, OneDraw)

NextRelease ==
    \/ FrameCallback
    \/ Resize(PyramidRects, OneDraw)
    \/ ReducedMotionChange
    \/ handleMouseMove({ << 40, 60 >> })
    \/ handleMouseLeave
    \/ disconnectedCallback

SpecRelease == InitRelease /\ [][NextRelease]_vars

---------------------------------------------------------------------------
(* Detachment                                                              *)

\* C1: once disconnectedCallback has run, no frame callback is pending and
\* render is not invoked again, whatever the environment notifies (resize,
\* reduced-motion change, viewport intersection, pointer events).
C1_NoRenderAfterDetach ==
    [][ ~ connected' => (pendingFrames' = {} /\ animationId' = 0 /\
                          renderCount' = renderCount) ]_vars

\* C1 witness: the element was detached while Animating (no hidden entry
\* had been delivered), and afterwards the preference changed, which the
\* element no longer follows, and the pointer went down
C1_Witness ==
    /\ ~ connected /\ viewport = "none"
    /\ prefersReducedMotion # media /\ isDragging /\ rect = NoLayout

\* the listeners bindEvents registers on the element itself
PointerListeners == { "pointerdown", "pointermove", "pointerup", "pointerleave" }

\* C2: after disconnectedCallback every listener and observer that
\* bindEvents registered is released.
C2_AllListenersReleased == ~ connected => listeners = {}

---------------------------------------------------------------------------
(* Run states                                                              *)

\* C3: after any sequence of initialization, viewport-visible, viewport-hidden
\* and frame events the element is Animating with exactly one frame callback
\* pending when the latest of initialization, visible, hidden was not hidden,
\* and Stopped with none pending when it was hidden; startAnimation while
\* Animating does nothing, and each frame requests exactly one next frame.
C3_RunState ==
    /\ [] /\ Cardinality(pendingFrames) <= 1
          /\ viewport \in { "none", "visible" } =>
                 animationId # 0 /\ pendingFrames = { animationId }
          /\ viewport = "hidden" => animationId = 0 /\ pendingFrames = {}
    /\ [][ /\ (IntersectionVisible /\ animationId # 0) =>
                 UNCHANGED << renderCount, animationId, pendingFrames >>
           /\ (renderCount' # renderCount) =>
                 /\ Cardinality(pendingFrames') = 1
                 /\ pendingFrames' \cap pendingFrames = {} ]_vars

\* C3 witness: a PyramidBuilder that was hidden, became visible again and has
\* run a frame since
C3_Witness ==
    /\ cls = "PyramidBuilder" /\ viewport = "visible"
    /\ renderCount = 3 /\ animationId = 3 /\ pendingFrames = { 3 }

---------------------------------------------------------------------------
(* The point set                                                           *)

\* C4: whatever nodeCount is configured (below 8, fractional, or at least 8),
\* the point array has 8 points when nodeCount is below 8 and the integer part
\* of nodeCount otherwise, after init and after every resize, setProperties
\* and reset; getNodeCount() returns this.nodes.length.
C4_PointCount ==
    LET c == props.nodeCount
        n == Len(nodes)
    IN  cls = "DataMeshGraph" =>
          /\ c < 8 * Den => n = 8
          /\ c >= 8 * Den => (n * Den <= c /\ c < (n + 1) * Den)

\* C4 witness: nodeCount was set to 8.5 after connectionsPerNode had been
\* set, the box was resized to nothing, and there are 8 points
C4_Witness ==
    /\ props.nodeCount = 8 * Den + 1 /\ props.connectionsPerNode = 2 * Den
    /\ rect = NoLayout /\ graphRadius = 0 /\ Len(nodes) = 8

C5_PhiInRange ==
    /\ [] (\A i \in DOMAIN nodes : nodes[i].phi >= 0 /\ nodes[i].phi <= PI)
    /\ [][ (renderCount' # renderCount /\ ~ prefersReducedMotion) =>
             \A i \in DOMAIN nodes :
                LET raw == nodes[i].phi + PhiStep(nodes[i], i - 1, props.driftSpeedBase)
                IN  /\ raw < 0 => /\ nodes'[i].phi = - raw
                                  /\ nodes'[i].driftPhi = - nodes[i].driftPhi
                    /\ raw > PI => /\ nodes'[i].phi = 2 * PI - raw
                                   /\ nodes'[i].driftPhi = - nodes[i].driftPhi
                    /\ (raw >= 0 /\ raw <= PI) =>
                           /\ nodes'[i].phi = raw
                           /\ nodes'[i].driftPhi = nodes[i].driftPhi ]_vars

\* C5 witness: two frames after generation the first point has crossed the
\* pole at 0 and the last point the pole at PI; each is now drifting away
\* from its pole, from a place the drift could not have come from directly
C5_Witness ==
    /\ Len(nodes) = 8 /\ renderCount = 3
    /\ nodes[1].driftPhi > 0
    /\ nodes[1].phi - PhiStep(nodes[1], 0, props.driftSpeedBase) < 0
    /\ nodes[8].driftPhi < 0
    /\ nodes[8].phi - 2 * PhiStep(nodes[8], 7, props.driftSpeedBase) > PI

---------------------------------------------------------------------------
(* The neighbor graph                                                      *)

\* the frame of this step recomputes the edge list
Recomputes ==
    /\ cls = "DataMeshGraph" /\ renderCount' # renderCount
    /\ (now - lastEdgeUpdateTime >= props.edgeUpdateIntervalMs \/ Len(edges) = 0)

\* some entry of es joins point i
Incident(es, i) == \E n \in DOMAIN es : es[n].a = i \/ es[n].b = i

\* the angle between points a and b of ns
Separation(ns, a, b) == AngleBetween(UnitVector(ns[a]), UnitVector(ns[b]))

\* C6: the edge list never holds a self-loop nor two entries for the same
\* unordered pair of points, for 8 and more points and neighbor counts of
\* 1, 2 and 3.
C6_NoLoopNoDuplicate ==
    \A m \in DOMAIN edges :
       /\ edges[m].a # edges[m].b
       /\ \A n \in DOMAIN edges :
             m # n => { edges[m].a, edges[m].b } # { edges[n].a, edges[n].b }

\* C6 witness: an edge list in which the first point and one of its closest
\* neighbors each selected the other, so that the pair was offered twice
C6_Witness ==
    /\ edges # << >> /\ NeighborCount(props.connectionsPerNode) = 2
    /\ \E j \in DOMAIN nodes :
          LET Chosen(i) == TakeClosest(Candidates(nodes, i, props.maxNeighborAngle),
                                       Min(2, Cardinality(Candidates(nodes, i,
                                                  props.maxNeighborAngle))))
          IN  /\ \E n \in DOMAIN Chosen(1) : Chosen(1)[n] = j
              /\ \E n \in DOMAIN Chosen(j) : Chosen(j)[n] = 1
              /\ lastEdgeUpdateTime = now /\ prefersReducedMotion

\* C7: every edge produced by a recomputation joins two points whose angular
\* separation, on the positions the recomputation used, is at most
\* maxNeighborAngle.
C7_EdgesWithinMaxAngle ==
    [][ Recomputes =>
          \A n \in DOMAIN edges' :
             Separation(nodes', edges'[n].a, edges'[n].b) <= props.maxNeighborAngle ]_vars

\* C7 witness: edges recomputed after the points had drifted, with the first
\* point having fewer points within maxNeighborAngle than the neighbor count
C7_Witness ==
    /\ edges # << >> /\ lastEdgeUpdateTime = now /\ now > StartTime
    /\ ~ prefersReducedMotion /\ renderCount = 3
    /\ Cardinality(Candidates(nodes, 1, props.maxNeighborAngle))
          < NeighborCount(props.connectionsPerNode)
    /\ Incident(edges, 1)

\* C8: whenever maxNeighborAngle = PI and there are at least 2 points (so with
\* 8 points and a neighbor count of 1), an edge recomputation leaves a
\* non-empty edge list in which every point has an incident edge.
C8_EveryPointConnected ==
    [][ (Recomputes /\ props.maxNeighborAngle = PI /\ Len(nodes) >= 2) =>
          /\ edges' # << >>
          /\ \A i \in DOMAIN nodes' : Incident(edges', i) ]_vars

\* C11: a frame replaces the edge list only if at least edgeUpdateIntervalMs
\* has elapsed since the previous recomputation or the edge list is empty;
\* any other frame leaves the edge list and lastEdgeUpdateTime unchanged.
C11_EdgesRateLimited ==
    [][ (cls = "DataMeshGraph" /\ renderCount' # renderCount) =>
          \/ now - lastEdgeUpdateTime >= props.edgeUpdateIntervalMs
          \/ Len(edges) = 0
          \/ (edges' = edges /\ lastEdgeUpdateTime' = lastEdgeUpdateTime) ]_vars

\* C11 witness: a frame has run less than the interval after a recomputation
\* that gave edges, and the time of the recomputation is still the old one
C11_Witness ==
    /\ edges # << >> /\ lastUpdateTime = now /\ lastEdgeUpdateTime < now
    /\ now - lastEdgeUpdateTime < props.edgeUpdateIntervalMs
    /\ ~ prefersReducedMotion

\* C12: render strokes the graph edges in ascending order of the average
\* rotated depth z of their endpoints, and an edge stroked later is never
\* farther from the viewer (of smaller perspective scale) than one stroked
\* before it.
C12_NearerEdgesOnTop ==
    \A m, n \in DOMAIN drawnEdges :
       m < n => /\ drawnEdges[m].z <= drawnEdges[n].z
                /\ drawnEdges[m].scale <= drawnEdges[n].scale

\* the other points within maxAngle of point i
Near(ns, i, maxAngle) ==
    { j \in DOMAIN ns : j # i /\ ns[i].radius # 0 /\ Separation(ns, i, j) <= maxAngle }

\* the k closest of them, points at equal angle taken in index order
Closest(ns, i, k, maxAngle) ==
    { j \in Near(ns, i, maxAngle) :
        Cardinality({ h \in Near(ns, i, maxAngle) :
                        \/ Separation(ns, i, h) < Separation(ns, i, j)
                        \/ (Separation(ns, i, h) = Separation(ns, i, j) /\ h < j) }) < k }

\* the number of entries of es that join point i
Degree(es, i) == Cardinality({ n \in DOMAIN es : es[n].a = i \/ es[n].b = i })

\* C17: with k = max(1, floor(connectionsPerNode)), a recomputation produces
\* exactly the pairs {i, j} with j among the min(k, c_i) closest of the c_i
\* points within maxNeighborAngle of i; so every point has at least
\* min(k, c_i) incident edges and there are at most N * k edges.
C17_ClosestNeighbors ==
    [][ Recomputes =>
          LET k == IF props.connectionsPerNode < Den THEN 1
                   ELSE props.connectionsPerNode \div Den
              c(i) == Cardinality(Near(nodes', i, props.maxNeighborAngle))
          IN  /\ { { edges'[n].a, edges'[n].b } : n \in DOMAIN edges' } =
                 UNION { { { i, j } : j \in Closest(nodes', i, k, props.maxNeighborAngle) } :
                         i \in DOMAIN nodes' }
              /\ \A i \in DOMAIN nodes' :
                    Degree(edges', i) >= (IF k < c(i) THEN k ELSE c(i))
              /\ Len(edges') <= Len(nodes') * k ]_vars

\* C17 witness: a recomputed edge list in which one point has more than k
\* incident edges and another has fewer points within the angle than k
C17_Witness ==
    LET k == NeighborCount(props.connectionsPerNode)
    IN  /\ edges # << >> /\ lastEdgeUpdateTime = now /\ lastUpdateTime = now
        /\ \E i \in DOMAIN nodes : Degree(edges, i) > k
        /\ \E i \in DOMAIN nodes :
              /\ Cardinality(Near(nodes, i, props.maxNeighborAngle)) < k
              /\ Degree(edges, i) >= 1

---------------------------------------------------------------------------
(* Projection                                                              *)

\* the arguments of a call recorded in projection
Arguments(c) == << c.x, c.y, c.z, c.ax, c.ay, c.depth, c.centerX, c.centerY >>

---------------------------------------------------------------------------
(* The interactive node                                                    *)

\* C9: userNodeActive is true only with a fine pointer and after a pointer
\* move that was within the element's box; a move outside the box and a
\* pointerleave leave it false, nothing but a move sets it, and a frame run
\* while it is false computes no interactive-node edge and no marker.
C9_InteractiveNode ==
    [][ /\ userNodeActive' => hasMouseSupport
        /\ onPointerMove(PointerPositions) =>
              (userNodeActive' <=> (hasMouseSupport /\ InBounds(mouseX', mouseY', rect)))
        /\ onPointerLeave => ~ userNodeActive'
        /\ (userNodeActive' /\ ~ userNodeActive) => onPointerMove(PointerPositions)
        /\ (renderCount' # renderCount /\ ~ userNodeActive) =>
              (userEdges' = << >> /\ projectedUser' = << >>) ]_vars

\* C9 witness: with a fine pointer and a laid-out box, a drag ended outside
\* the box and the frame that followed (it has damped the drag's velocity)
\* left no interactive-node edge and no marker
C9_Witness ==
    /\ hasMouseSupport /\ rect = LaidOut /\ ~ userNodeActive
    /\ mouseX = Outside[1] /\ mouseY = Outside[2]
    /\ angularVelY = Div((Inside[1] - Outside[1]) * DragGain * Damping, 100)
    /\ userEdges = << >> /\ projectedUser = << >>

---------------------------------------------------------------------------
(* Reduced motion                                                          *)

\* v2 is v1 * 0.96
Damped(v1, v2) == Abs(100 * v2 - 96 * v1) < 100 /\ Abs(v2) <= Abs(v1)

---------------------------------------------------------------------------
(* Inertia                                                                 *)

\* C18: the angular velocities change only by a pointermove received while
\* dragging, which adds -0.0009 times the pointer delta, and by a frame,
\* which multiplies both by 0.96; dragging lasts from a pointerdown to the
\* next pointerup or pointerleave; a pointermove while not dragging leaves
\* the velocities unchanged, and no frame increases their magnitudes.
C18_VelocityChanges ==
    [][ LET frame    == renderCount' # renderCount
            dragMove == isDragging /\ onPointerMove(PointerPositions)
        IN  /\ frame =>
                  /\ Damped(angularVelX, angularVelX') /\ Damped(angularVelY, angularVelY')
            /\ dragMove =>
                  /\ angularVelY' = angularVelY - (mouseX' - lastPointerX) * DragGain
                  /\ angularVelX' = angularVelX - (mouseY' - lastPointerY) * DragGain
            /\ (~ frame /\ ~ dragMove) => UNCHANGED << angularVelX, angularVelY >>
            /\ (isDragging' /\ ~ isDragging) => onPointerDown({ Inside })
            /\ (onPointerUp \/ onPointerLeave) => ~ isDragging' ]_vars

\* C18 witness: a drag to the left ended, the pointer moved back without
\* dragging, and a frame has damped the yaw velocity the drag had given
C18_Witness ==
    LET v == (Inside[1] - Outside[1]) * DragGain
    IN  /\ ~ isDragging /\ renderCount = 2 /\ v > 0
        /\ lastPointerX = Outside[1] /\ mouseX = Inside[1]
        /\ angularVelY = Div(v * Damping, 100)

---------------------------------------------------------------------------
(* The pyramid                                                             *)

\* the dots of the structure
Dots ==
    UNION { { pyramid.pyramidLayers[l][d] : d \in DOMAIN pyramid.pyramidLayers[l] } :
              l \in DOMAIN pyramid.pyramidLayers }

\* a dot whose drop has begun or that is in place
Started(dot) == dot.isBuilt \/ dot.isDropping

\* the dots that a step starts dropping, by position
NewlyDropping ==
    UNION { { << l, d >> : d \in { e \in DOMAIN pyramid.pyramidLayers[l] \cap
                                          DOMAIN pyramid'.pyramidLayers[l] :
                                      /\ pyramid'.pyramidLayers[l][e].isDropping
                                      /\ ~ pyramid.pyramidLayers[l][e].isDropping } } :
              l \in DOMAIN pyramid.pyramidLayers \cap DOMAIN pyramid'.pyramidLayers }

\* the dots that have started are exactly those whose globalIndex is below
\* nextDotIndex, indices grow along a layer and from a layer to the one
\* above, so every dot of a layer has started before any dot above it
StartedInOrder ==
    /\ \A dot \in Dots : Started(dot) <=> dot.globalIndex < pyramid.nextDotIndex
    /\ \A lower \in Dots, upper \in Dots :
           (Started(upper) /\ lower.layerIndex < upper.layerIndex) => Started(lower)
    /\ \A a \in Dots, b \in Dots :
           (\/ a.layerIndex < b.layerIndex
            \/ (a.layerIndex = b.layerIndex /\ a.dotIndex < b.dotIndex))
               => a.globalIndex < b.globalIndex

\* C15: the pyramid is built bottom to top in strictly increasing
\* globalIndex order: at every moment the started dots are those below
\* nextDotIndex, and a step starts the drop of at most one dot, the one whose
\* globalIndex is nextDotIndex, moving nextDotIndex to the next index.
C15_BottomToTop ==
    /\ [](cls = "PyramidBuilder" => StartedInOrder)
    /\ [][ \A pos \in NewlyDropping :
              /\ NewlyDropping = { pos }
              /\ pyramid.pyramidLayers[pos[1]][pos[2]].globalIndex = pyramid.nextDotIndex
              /\ pyramid'.nextDotIndex = pyramid.nextDotIndex + 1 ]_vars

\* two dots of the layer below the top are dropping or in place, in index
\* order, while the top dot waits
C15_Witness ==
    /\ cls = "PyramidBuilder"
    /\ Len(pyramid.pyramidLayers) = 6
    /\ pyramid.nextDotIndex = 20
    /\ pyramid.pyramidLayers[5][1].isBuilt
    /\ pyramid.pyramidLayers[5][1].globalIndex = 18
    /\ pyramid.pyramidLayers[5][2].isDropping
    /\ ~ Started(pyramid.pyramidLayers[6][1])

\* the structure that createPyramidStructure leaves: a triangle of L layers
\* numbered from 0, nine tenths of it in place
Created ==
    LET layers == pyramid.pyramidLayers
        L      == Len(layers)
        total  == pyramid.totalDots
        share  == (9 * total) \div 10
    IN  /\ 2 * total = L * (L + 1)
        /\ Cardinality(Dots) = total
        /\ { dot.globalIndex : dot \in Dots } = 0..(total - 1)
        /\ \A l \in 1..L : Len(layers[l]) = L - (l - 1)
        /\ \A dot \in Dots :
              IF dot.globalIndex < share
              THEN dot.isBuilt /\ dot.opacity = One
              ELSE ~ dot.isBuilt /\ dot.opacity = 0
        /\ Cardinality({ dot \in Dots : dot.isBuilt }) = share
        /\ pyramid.builtDots = share
        /\ pyramid.nextDotIndex = share
        /\ ~ pyramid.isBuilding
        /\ ~ pyramid.isComplete

\* C19: createPyramidStructure leaves a triangle of L(L+1)/2 dots with the
\* indices 0..totalDots-1, layer r holding L-r of them, the dots below
\* floor(0.9 totalDots) built with opacity 1 and the others unbuilt with
\* opacity 0, builtDots = nextDotIndex = floor(0.9 totalDots), and neither
\* building nor complete: so it is while the fade-in after init or reset
\* lasts, and right after a resize, a setProperties and a reset.
C19_Structure ==
    /\ []((cls = "PyramidBuilder" /\ pyramid.isFadingIn) => Created)
    /\ [][ (\/ Resize(PyramidRects, OneDraw)
            \/ setPropertiesPyramid(PyramidPropertySets)
            \/ resetPyramid) => Created' ]_vars

\* a resize during the build has replaced the structure by one of 6 layers,
\* 18 of its 21 dots in place, while a build timeout is still pending
C19_Witness ==
    /\ cls = "PyramidBuilder"
    /\ ~ pyramid.isFadingIn
    /\ timers.pending # {}
    /\ Len(pyramid.pyramidLayers) = 6
    /\ pyramid.totalDots = 21
    /\ pyramid.nextDotIndex = 18
    /\ ~ pyramid.isBuilding
    /\ Created

---------------------------------------------------------------------------
(* Cleanup of DotGridBackground and PyramidBuilder                         *)

\* the handlers of the mouse that bindEvents registers
MouseListeners == { "mousemove", "mouseenter", "mouseleave" }

\* C16: after disconnectedCallback of a DotGridBackground or a
\* PyramidBuilder the window resize handler is no longer registered, and for
\* a DotGridBackground neither are the reduced-motion change handler and
\* the mouse handlers.
C16_HandlersReleased ==
    (~ connected /\ cls \in { "DotGridBackground", "PyramidBuilder" }) =>
        /\ "resize" \notin listeners
        /\ cls = "DotGridBackground" =>
               "change" \notin listeners /\ listeners \cap MouseListeners = {}

---------------------------------------------------------------------------
(* The gravity trails                                                      *)

\* C20: the list of gravity trails never holds more than maxTrails entries;
\* a move inside the box onto a full list drops the oldest entry and
\* appends the new one, and a mouse leave empties the list.
C20_TrailsBounded ==
    /\ [](cls = "DotGridBackground" => Len(grid.gravityTrails) <= grid.maxTrails)
    /\ [][ (/\ handleMouseMove(GridPositions)
            /\ grid'.isMouseInBounds
            /\ Len(grid.gravityTrails) = grid.maxTrails)
              => grid'.gravityTrails =
                     Append(Tail(grid.gravityTrails),
                            [ x |-> mouseX', y |-> mouseY', strength |-> One, age |-> 0 ]) ]_vars
    /\ [][ handleMouseLeave => grid'.gravityTrails = << >> ]_vars

\* the list is full and, no frame having run since, a move has evicted its
\* oldest entry to the pool
C20_Witness ==
    /\ cls = "DotGridBackground"
    /\ renderCount = 1
    /\ Len(grid.gravityTrails) = grid.maxTrails
    /\ grid.trailPool >= 1
    /\ grid.isMouseInBounds

---------------------------------------------------------------------------
(* Reduced motion in DotGridBackground                                     *)

\* every dot is drawn at its base position
DotsAtBase ==
    \A k \in DOMAIN grid.dots :
        /\ grid.dots[k].x = grid.dots[k].baseX * One
        /\ grid.dots[k].y = grid.dots[k].baseY * One

\* C21: whenever prefersReducedMotion is true every dot of a
\* DotGridBackground is drawn at its base position, and a frame then changes
\* neither the dots (positions and targets) nor the event list, waveTime, the
\* gravity trails and the fade-in progress.
C21_ReducedMotionStill ==
    /\ []((cls = "DotGridBackground" /\ prefersReducedMotion) => DotsAtBase)
    /\ [][ (cls = "DotGridBackground" /\ prefersReducedMotion /\ FrameCallback) =>
              /\ grid'.dots = grid.dots
              /\ grid'.events = grid.events
              /\ grid'.waveTime = grid.waveTime
              /\ grid'.gravityTrails = grid.gravityTrails
              /\ grid'.fadeInProgress = grid.fadeInProgress ]_vars

\* the preference was set after the one frame that animated (an event and
\* a wave phase are left from it), the mouse has left a trail since, and a
\* frame has run under the preference
C21_Witness ==
    /\ cls = "DotGridBackground"
    /\ prefersReducedMotion
    /\ renderCount >= 2
    /\ grid.events # << >>
    /\ grid.waveTime = WaveStep
    /\ grid.gravityTrails # << >>
    /\ DotsAtBase

---------------------------------------------------------------------------
(* The events of DotGridBackground                                         *)

\* C22: after updateEvents has run in a frame the event list holds exactly
\* the events whose age is less than their duration, in their previous
\* order (followed by the event that the frame itself started, if any), and
\* each event whose age has reached its duration has left the list and was
\* handed to resetDotsFromEvent exactly once.
C22_EventsExpire ==
    [][ (cls = "DotGridBackground" /\ ~ prefersReducedMotion /\ FrameCallback) =>
           LET Alive(event) == now - event.startTime < event.duration
               Ended(event) == ~ Alive(event)
               kept == SelectSeq(grid.events, Alive)
           IN  /\ Len(grid'.events) \in { Len(kept), Len(kept) + 1 }
               /\ SubSeq(grid'.events, 1, Len(kept)) = kept
               /\ \A n \in DOMAIN grid'.events : Alive(grid'.events[n])
               /\ Len(grid'.events) > Len(kept) =>
                      grid'.events[Len(grid'.events)].startTime = now
               /\ grid'.resetEvents = SelectSeq(grid.events, Ended)
               /\ \A n \in DOMAIN grid'.resetEvents :
                      \A m \in DOMAIN grid'.events : grid'.events[m] # grid'.resetEvents[n] ]_vars

\* a frame has ended the oldest event and kept two younger ones in order
C22_Witness ==
    /\ cls = "DotGridBackground"
    /\ Len(grid.resetEvents) = 1
    /\ Len(grid.events) = 2
    /\ grid.events[1].startTime < grid.events[2].startTime
    /\ grid.resetEvents[1].startTime < grid.events[1].startTime

---------------------------------------------------------------------------
(* The indices of the edges                                                *)

\* C23: every entry {a, b} of the edge list joins two existing points, a
\* before b (with the points numbered from 1: 1 <= a < b <= number of
\* points), also right after a resize, setProperties or reset; and the edge
\* list changes only by being emptied or by being replaced as a whole by a
\* recomputation over the current points.
C23_EdgeIndices ==
    /\ [](cls = "DataMeshGraph" =>
            \A n \in DOMAIN edges :
               1 <= edges[n].a /\ edges[n].a < edges[n].b /\ edges[n].b <= Len(nodes))
    /\ [][ edges' # edges =>
              \/ edges' = << >>
              \/ /\ Recomputes
                 /\ edges' = computeEdges(nodes', props.connectionsPerNode,
                                          props.maxNeighborAngle) ]_vars

\* the last frame drew an edge to a point that a regeneration has since
\* removed, and the edge list is empty
C23_Witness ==
    /\ cls = "DataMeshGraph"
    /\ edges = << >>
    /\ \E n \in DOMAIN drawnEdges : drawnEdges[n].b > Len(nodes)

---------------------------------------------------------------------------
(* The depth of a projected point                                          *)

\* C27: project gives every point of the sphere, under any rotation, a
\* depth z within [-radius, radius]; so when the radius of the sphere is
\* smaller than the configured depth the scale factor depth / (depth + z) is
\* finite and positive.  Nothing guards the other case: at z = -depth the
\* factor is infinite and below it the factor is negative.
C27_DepthInRange ==
    (cls = "DataMeshGraph" /\ projection # << >>) =>
        LET call == projection[1]
        IN  /\ Abs(call.result.z) <= graphRadius
            /\ graphRadius < call.depth =>
                   call.result.scale > 0 /\ call.result.scale < Infinity
            /\ call.result.z = 0 - call.depth => call.result.scale = Infinity
            /\ call.result.z < 0 - call.depth => call.result.scale <= 0

\* project was called with both angles off the axes on a point that the
\* rotation brings to the near side, for a sphere smaller than the depth
C27_Witness ==
    /\ cls = "DataMeshGraph" /\ projection # << >>
    /\ projection[1].ax = 135000 /\ projection[1].ay = 300000
    /\ graphRadius = 160 /\ projection[1].depth = Depth
    /\ projection[1].result.z < 0 - 100
    /\ projection[1].result.scale > One

---------------------------------------------------------------------------
(* The counters of the pyramid                                             *)

\* C26: the two counters of a PyramidBuilder are always equal and lie
\* between 0 and totalDots, also when a resize has made the pyramid smaller
\* while a build timer was pending; and isComplete is true only when
\* nextDotIndex has reached totalDots.
C26_Counters ==
    cls = "PyramidBuilder" =>
        /\ 0 <= pyramid.builtDots
        /\ pyramid.builtDots = pyramid.nextDotIndex
        /\ pyramid.nextDotIndex <= pyramid.totalDots
        /\ pyramid.isComplete => pyramid.nextDotIndex = pyramid.totalDots

\* the build timer set for the larger pyramid has run after a resize to the
\* smaller one: it started the last dot without completing the build
C26_Witness ==
    /\ cls = "PyramidBuilder"
    /\ timers.next = 2 /\ timers.pending = {}
    /\ rect.width = 100
    /\ pyramid.totalDots > 0
    /\ pyramid.nextDotIndex = pyramid.totalDots
    /\ pyramid.nextDotIndex = PreBuilt(pyramid.totalDots) + 1
    /\ ~ pyramid.isComplete /\ ~ pyramid.isBuilding

---------------------------------------------------------------------------
(* The build timer                                                         *)

\* C25: whatever the order of frames, build-timer firings, resizes,
\* viewport notifications, resets and the detach, a PyramidBuilder has at
\* most one build timer pending, and none while it is Stopped.
C25_OneBuildTimer ==
    cls = "PyramidBuilder" =>
        /\ Cardinality(timers.pending) <= 1
        /\ animationId = 0 => timers.pending = {}

\* the element was stopped in the middle of a build: the timer that
\* addNextDot had set is cleared
C25_Witness ==
    /\ cls = "PyramidBuilder"
    /\ animationId = 0
    /\ pyramid.isBuilding /\ pyramid.buildTimer = 0
    /\ timers.next = 2 /\ timers.pending = {}

---------------------------------------------------------------------------
(* The build goes on                                                       *)

\* the build of a PyramidBuilder can no longer go on: the fade-in, whose end
\* is the only caller of startBuilding, is over, the build is not complete,
\* and no build timer is left to call addNextDot
Stalled ==
    /\ cls = "PyramidBuilder"
    /\ ~ pyramid.isFadingIn
    /\ ~ pyramid.isComplete
    /\ timers.pending = {}

\* C24: a PyramidBuilder that stays Animating after hidden, visible and
\* resize notifications eventually starts the drop of every dot and
\* completes; so whenever it is Animating it is not left without a way to
\* start the next dot.
C24_BuildGoesOn ==
    (cls = "PyramidBuilder" /\ animationId # 0) => ~ Stalled

====
